---------------------------- MODULE Spec2Model ----------------------------
(***************************************************************************)
(* Model of the backup catalog core of pg_probackup (src/src/catalog.c):   *)
(*   - the per-backup lock manager (lock_backup, unlink_lock_atexit,       *)
(*     catalog_lock_backup_list),                                          *)
(*   - the control-file codec (write_backup, pgBackupWriteControl,         *)
(*     readBackupControlFile, read_backup),                                *)
(*   - the catalog scanner (catalog_get_backup_list),                      *)
(*   - the parent-chain functions and the timeline scanner with its WAL    *)
(*     retention (catalog_get_timelines).                                  *)
(* Every system call of the code is one atomic step of the process that    *)
(* makes it; the steps of different processes interleave freely.           *)
(* Backup statuses are changed by write_backup_status; the file list of a  *)
(* backup is written by write_backup_filelist.                             *)
(*                                                                         *)
(* Specifications:                                                         *)
(*   Spec      processes that call lock_backup concurrently,               *)
(*   SpecSolo  one process that calls lock_backup, whatever the lockfile   *)
(*             holds,                                                      *)
(*   SpecCodec a backup written by write_backup, then read by read_backup, *)
(*   SpecCtl   write_backup step by step, with failures and kills, beside  *)
(*             processes in read_backup,                                   *)
(*   SpecList  catalog_get_backup_list over a changing instance directory, *)
(*   SpecChain scan_parent_chain, is_parent, catalog_get_last_data_backup  *)
(*             on the lists catalog_get_backup_list returns,               *)
(*   SpecTimelines  catalog_get_timelines over WAL archives with branching *)
(*             timelines and catalogs of backups,                          *)
(*   SpecArchive  catalog_get_timelines over archives that lost files and  *)
(*             catalogs with a backup that has no stop_lsn,                *)
(*   SpecFilelist  write_backup_filelist turn by turn of its loop,         *)
(*   SpecRace  one process in lock_backup while other processes create and *)
(*             remove the lockfile; SpecRaceFair lets the process go on,   *)
(*   SpecLockList  processes that call catalog_lock_backup_list beside     *)
(*             each other,                                                 *)
(*   SpecStatus  write_backup_status on control files write_backup wrote.  *)
(***************************************************************************)
EXTENDS Integers, Sequences, FiniteSets, TLC

(***************************************************************************)
(* Bounds of the model.                                                    *)
(***************************************************************************)
NProcs == 2        \* processes that call lock_backup
NBackups == 2      \* backup directories
MaxCalls == 2      \* lock_backup calls one process makes before it exits
NReaders == 1      \* processes that read a control file while it is written
MaxStartTime == 2  \* latest start_time of a backup in the instance directory
NChain == 3        \* backups of the list the parent-chain functions are given
NTimelines == 3    \* timelines of the WAL archive
NTlBackups == 3    \* backups in the catalog when the timelines are listed
MaxSegno == 7      \* last WAL segment of a timeline in the archive
MaxWalDepth == 2   \* largest wal_depth of the instance
BufferWindow == 4  \* BUFFERSZ, in units of one short line of the file list
MaxLineLen == 2    \* length of the longest line of the file list, in that unit
NFiles == 3        \* elements of the list write_backup_filelist is given

Procs == 1..NProcs
Backups == 1..NBackups
SoloProcs == {1}
Readers == 1..NReaders

(***************************************************************************)
(* Process ids.  Pid(p) is what getpid() returns in process p, PPid(p)     *)
(* what getppid() returns; GPPid(p) is the PID of the shell above the      *)
(* parent (the value pg_ctl would pass in PG_GRANDPARENT_PID).  DeadPid    *)
(* names no process, LivePid a running process of the same user that is    *)
(* unrelated to every caller, RootPid a running process of another user.   *)
(***************************************************************************)
Pid(p) == p
PPid(p) == NProcs + p
GPPid(p) == 2 * NProcs + p
DeadPid == 3 * NProcs + 1
LivePid == 3 * NProcs + 2
RootPid == 3 * NProcs + 3

NoIno == 0
LockInos == 1..(NBackups + NProcs)

\* catalog.c:181   ntries > 100
LOCK_MAX_TRIES == 100

VARIABLES
    \* ---- file system: <backup-dir>/backup.pid
    lock_dirent,          \* [Backups -> LockInos \cup {NoIno}]: the directory entry
    lock_inode,           \* [LockInos -> content]: <<>> (empty) or <<n>> ("n\n")
    \* ---- per process: lock_backup locals and the process-wide globals
    pc,                   \* position of the process
    cur,                  \* backup whose lock_file path the running call uses
    ntries,               \* loop counter of lock_backup
    fd,                   \* open descriptor of lock_backup (an inode) or NoIno
    encoded_pid,          \* PID read from the lockfile (0: none read in this call)
    exit_hook_registered, \* static bool exit_hook_registered
    atexit_hooks,         \* number of atexit(unlink_lock_atexit) registrations
    lock_files,           \* static parray *lock_files (NULL is <<>>)
    hook_i,               \* loop index of unlink_lock_atexit
    ret,                  \* what the last lock_backup call returned
    acquired,             \* backups for which lock_backup returned true
    calls,                \* lock_backup calls made so far
    fatal,                \* the process went through elog(ERROR)
    \* ---- a write_backup followed by a read_backup of the same backup
    c_pc,                 \* "start", "written", "read"
    c_backup,             \* the pgBackup given to write_backup
    c_file,               \* the lines of backup.control
    c_read,               \* what read_backup returned
    \* ---- file system: <backup-dir>/backup.control and backup.control.tmp
    ctl_dirent,           \* [CtlNames -> CtlInos \cup {NoIno}]
    ctl_inode,            \* [CtlInos -> the lines of the file]
    \* ---- the process in write_backup
    w_pc,                 \* position of the writer
    w_backup,             \* the pgBackup it writes
    w_fp,                 \* FILE *fp (an inode) or NoIno
    w_n,                  \* lines of pgBackupWriteControl that reached the file
    w_prev,               \* backup.control as it was when write_backup was called
    \* ---- the processes in read_backup
    r_pc,                 \* position of the reader
    r_fd,                 \* the stream config_read_opt reads (an inode) or NoIno
    r_seen,               \* what the reader found: does the file exist, its lines
    r_ok,                 \* the versions backup.control had during the call
    r_ret,                \* what read_backup returned
    \* ---- the instance directory and the caller of catalog_get_backup_list
    instance_dir,         \* [DirNames -> what the name is in the directory]
    requested_backup_id,  \* the argument of the call
    backups,              \* the parray the call returned
    list_ret,             \* "none", "OK" (a list), "ERROR" (elog(ERROR))
    \* ---- the caller of the parent-chain functions
    backup_list,          \* the list it got from catalog_get_backup_list
    chain_call,           \* its last call: the function, arguments, result
    \* ---- the WAL archive and the caller of catalog_get_timelines
    arclog_files,         \* the files of the archive, sorted by path
    catalog_backups,      \* what catalog_get_backup_list returns to it
    instance_config,      \* InstanceConfig: wal_depth, xlog_seg_size
    timelines,            \* the parray the call returned
    tl_ret,               \* "none", "OK" (a list of timelines)
    \* ---- the process in write_backup_filelist and the files it writes
    fl_pc,                \* position of the process
    fl_files,             \* parray *files
    fl_i,                 \* size_t i: elements of files taken so far
    fl_buf,               \* the lines in the first write_len bytes of buf
    fl_write_len,         \* size_t write_len
    fl_sizes,             \* backup_size_on_disk and its two companions
    fl_backup,            \* data_bytes, wal_bytes, uncompressed_bytes of backup
    fl_temp,              \* backup_content.control.tmp
    fl_list,              \* backup_content.control
    \* ---- per process: catalog_lock_backup_list
    ll_pc,                \* position of the process in it
    ll_list,              \* parray *backup_list: the backup of each element
    ll_range,             \* <<from_idx, to_idx>>
    ll_i,                 \* int i
    ll_end,               \* int end_idx
    ll_tried,             \* the indexes lock_backup was called for, in order
    \* ---- write_backup_status
    ws_pc,                \* position of the caller of write_backup_status
    ws_files,             \* backup.control of each backup directory
    ws_backup             \* pgBackup *backup of the caller

lockVars == <<lock_dirent, lock_inode, pc, cur, ntries, fd, encoded_pid,
              exit_hook_registered, atexit_hooks, lock_files, hook_i, ret,
              acquired, calls, fatal>>

codecVars == <<c_pc, c_backup, c_file, c_read>>

ctlVars == <<ctl_dirent, ctl_inode, w_pc, w_backup, w_fp, w_n, w_prev,
             r_pc, r_fd, r_seen, r_ok, r_ret>>

listVars == <<instance_dir, requested_backup_id, backups, list_ret>>

chainVars == <<backup_list, chain_call>>

tlVars == <<arclog_files, catalog_backups, instance_config, timelines, tl_ret>>

flVars == <<fl_pc, fl_files, fl_i, fl_buf, fl_write_len, fl_sizes, fl_backup,
            fl_temp, fl_list>>

llVars == <<ll_pc, ll_list, ll_range, ll_i, ll_end, ll_tried>>

wsVars == <<ws_pc, ws_files, ws_backup>>

vars == <<lockVars, codecVars, ctlVars, listVars, chainVars, tlVars, flVars,
          llVars, wsVars>>

\* what the operations of one part of the catalog leave alone
notLock == <<codecVars, ctlVars, listVars, chainVars, tlVars,
             flVars, llVars, wsVars>>
notCodec == <<lockVars, ctlVars, listVars, chainVars, tlVars,
              flVars, llVars, wsVars>>
notCtl == <<lockVars, codecVars, listVars, chainVars, tlVars,
            flVars, llVars, wsVars>>
notList == <<lockVars, codecVars, ctlVars, chainVars, tlVars,
             flVars, llVars, wsVars>>
notChain == <<lockVars, codecVars, ctlVars, listVars, tlVars,
              flVars, llVars, wsVars>>
notTl == <<lockVars, codecVars, ctlVars, listVars, chainVars, flVars,
           llVars, wsVars>>
notFl == <<lockVars, codecVars, ctlVars, listVars, chainVars, tlVars,
           llVars, wsVars>>
\* what catalog_lock_backup_list and the locks it takes leave alone
notLockList == <<codecVars, ctlVars, listVars, chainVars, tlVars, flVars,
                 wsVars>>
notWs == <<lockVars, codecVars, ctlVars, listVars, chainVars, tlVars,
           flVars, llVars>>

(***************************************************************************)
(* File-system helpers.                                                    *)
(***************************************************************************)
\* an inode is in use while a directory entry or a descriptor refers to it
InoInUse(dirent, fds, i) ==
    (\E b \in Backups : dirent[b] = i) \/ (\E p \in Procs : fds[p] = i)

\* the inode a creating open() gets: the lowest one not in use
NewIno(dirent, fds) ==
    CHOOSE i \in LockInos :
        /\ ~InoInUse(dirent, fds, i)
        /\ \A j \in LockInos : j < i => InoInUse(dirent, fds, j)

\* the content of an inode nothing refers to is gone
Reclaim(dirent, fds, inode) ==
    [i \in LockInos |-> IF InoInUse(dirent, fds, i) THEN inode[i] ELSE <<>>]

\* a process exists from its start until exit() has run its exit hooks
Alive(p) == pc[p] # "exited"

\* kill(pid, 0): "OK" (returns 0), or the errno it fails with
Kill(pid) ==
    IF pid \in {Pid(p) : p \in Procs}
    THEN IF \E p \in Procs : Pid(p) = pid /\ Alive(p) THEN "OK" ELSE "ESRCH"
    ELSE IF pid = DeadPid THEN "ESRCH"
    ELSE IF pid = RootPid THEN "EPERM"
    ELSE "OK"

(***************************************************************************)
(* lock_backup, catalog.c:117-302                                          *)
(***************************************************************************)
\* catalog.c:221  encoded_pid != my_pid && encoded_pid != my_p_pid
IsFalseMatch(p, pid) == pid = Pid(p) \/ pid = PPid(p)

ProbeVerdictLiveIsStale(res) ==
    IF res = "OK" THEN "stale"
    ELSE IF res = "ESRCH" THEN "stale"
    ELSE "fatal"

ProbeVerdictStaleIsOwned(res) ==
    IF res = "OK" THEN "owned"
    ELSE IF res = "ESRCH" THEN "owned"
    ELSE "fatal"

\* catalog.c:223-237  what lock_backup does with the result of kill(pid, 0)
ProbeVerdict(res) ==
    IF res = "OK" THEN "owned"
    ELSE IF res = "ESRCH" THEN "stale"
    ELSE "fatal"

\* elog(ERROR) ends in exit(), which runs the registered exit hook
ExitPc(p) == IF atexit_hooks[p] > 0 THEN "atexit" ELSE "exited"

\* the caller: lock_backup(backup) is entered
LockBackup(p, b) ==
    /\ pc[p] = "idle"
    /\ calls[p] < MaxCalls
    /\ pc' = [pc EXCEPT ![p] = "create"]
    /\ cur' = [cur EXCEPT ![p] = b]
    /\ ntries' = [ntries EXCEPT ![p] = 0]
    /\ ret' = [ret EXCEPT ![p] = "none"]
    /\ calls' = [calls EXCEPT ![p] = @ + 1]
    /\ encoded_pid' = [encoded_pid EXCEPT ![p] = 0]
    /\ UNCHANGED <<lock_dirent, lock_inode, fd, exit_hook_registered,
                   atexit_hooks, lock_files, hook_i, acquired, fatal>>
    /\ UNCHANGED notLock

\* catalog.c:174-183  fio_open(lock_file, O_RDWR | O_CREAT | O_EXCL)
TryCreate(p) ==
    /\ pc[p] = "create"
    /\ IF lock_dirent[cur[p]] = NoIno
       THEN LET i == NewIno(lock_dirent, fd) IN
            /\ lock_dirent' = [lock_dirent EXCEPT ![cur[p]] = i]
            /\ lock_inode' = [lock_inode EXCEPT ![i] = <<>>]
            /\ fd' = [fd EXCEPT ![p] = i]
            /\ pc' = [pc EXCEPT ![p] = "fill"]
            /\ UNCHANGED fatal
       ELSE \* errno = EEXIST
            /\ UNCHANGED <<lock_dirent, lock_inode, fd>>
            /\ IF ntries[p] > LOCK_MAX_TRIES
               THEN /\ pc' = [pc EXCEPT ![p] = ExitPc(p)]
                    /\ fatal' = [fatal EXCEPT ![p] = TRUE]
               ELSE /\ pc' = [pc EXCEPT ![p] = "open"]
                    /\ UNCHANGED fatal
    /\ UNCHANGED <<cur, ntries, encoded_pid, exit_hook_registered,
                   atexit_hooks, lock_files, hook_i, ret, acquired, calls>>
    /\ UNCHANGED notLock

OpenLockRetryNotCounted(p) ==
    /\ pc[p] = "open"
    /\ IF lock_dirent[cur[p]] = NoIno
       THEN /\ pc' = [pc EXCEPT ![p] = "create"]
            /\ UNCHANGED fd
       ELSE /\ fd' = [fd EXCEPT ![p] = lock_dirent[cur[p]]]
            /\ pc' = [pc EXCEPT ![p] = "read"]
    /\ UNCHANGED <<lock_dirent, lock_inode, cur, ntries, encoded_pid,
                   exit_hook_registered, atexit_hooks, lock_files, hook_i,
                   ret, acquired, calls, fatal>>
    /\ UNCHANGED notLock

\* catalog.c:189-196  fio_open(lock_file, O_RDONLY); ENOENT: try again
OpenLock(p) ==
    /\ pc[p] = "open"
    /\ IF lock_dirent[cur[p]] = NoIno
       THEN /\ ntries' = [ntries EXCEPT ![p] = @ + 1]
            /\ pc' = [pc EXCEPT ![p] = "create"]
            /\ UNCHANGED fd
       ELSE /\ fd' = [fd EXCEPT ![p] = lock_dirent[cur[p]]]
            /\ pc' = [pc EXCEPT ![p] = "read"]
            /\ UNCHANGED ntries
    /\ UNCHANGED <<lock_dirent, lock_inode, cur, encoded_pid,
                   exit_hook_registered, atexit_hooks, lock_files, hook_i,
                   ret, acquired, calls, fatal>>
    /\ UNCHANGED notLock

\* catalog.c:197-221  fio_read, fio_close, atoi and the checks on the PID
ReadLock(p) ==
    /\ pc[p] = "read"
    /\ LET buffer == lock_inode[fd[p]]
           fds == [fd EXCEPT ![p] = NoIno]
       IN
       /\ fd' = fds
       /\ lock_inode' = Reclaim(lock_dirent, fds, lock_inode)
       /\ IF Len(buffer) = 0 \/ buffer[1] <= 0
          THEN \* "Lock file is empty" / "Bogus data in lock file"
               /\ pc' = [pc EXCEPT ![p] = ExitPc(p)]
               /\ fatal' = [fatal EXCEPT ![p] = TRUE]
               /\ UNCHANGED encoded_pid
          ELSE /\ encoded_pid' = [encoded_pid EXCEPT ![p] = buffer[1]]
               /\ pc' = [pc EXCEPT ![p] =
                           IF IsFalseMatch(p, buffer[1]) THEN "unlink"
                           ELSE "probe"]
               /\ UNCHANGED fatal
    /\ UNCHANGED <<lock_dirent, cur, ntries, exit_hook_registered,
                   atexit_hooks, lock_files, hook_i, ret, acquired, calls>>
    /\ UNCHANGED notLock

\* catalog.c:223-237  kill(encoded_pid, 0)
ProbeOwner(p) ==
    /\ pc[p] = "probe"
    /\ LET verdict == ProbeVerdict(Kill(encoded_pid[p])) IN
       /\ pc' = [pc EXCEPT ![p] =
                    IF verdict = "owned" THEN "idle"
                    ELSE IF verdict = "stale" THEN "unlink"
                    ELSE ExitPc(p)]
       /\ ret' = [ret EXCEPT ![p] = IF verdict = "owned" THEN "false" ELSE @]
       /\ fatal' = [fatal EXCEPT ![p] = IF verdict = "fatal" THEN TRUE ELSE @]
    /\ UNCHANGED <<lock_dirent, lock_inode, cur, ntries, fd, encoded_pid,
                   exit_hook_registered, atexit_hooks, lock_files, hook_i,
                   acquired, calls>>
    /\ UNCHANGED notLock

\* catalog.c:245-248  fio_unlink(lock_file) and the next round of the loop
UnlinkStale(p) ==
    /\ pc[p] = "unlink"
    /\ IF lock_dirent[cur[p]] = NoIno
       THEN \* "Could not remove old lock file"
            /\ pc' = [pc EXCEPT ![p] = ExitPc(p)]
            /\ fatal' = [fatal EXCEPT ![p] = TRUE]
            /\ UNCHANGED <<lock_dirent, lock_inode, ntries>>
       ELSE LET dirent == [lock_dirent EXCEPT ![cur[p]] = NoIno] IN
            /\ lock_dirent' = dirent
            /\ lock_inode' = Reclaim(dirent, fd, lock_inode)
            /\ ntries' = [ntries EXCEPT ![p] = @ + 1]
            /\ pc' = [pc EXCEPT ![p] = "create"]
            /\ UNCHANGED fatal
    /\ UNCHANGED <<cur, fd, encoded_pid, exit_hook_registered, atexit_hooks,
                   lock_files, hook_i, ret, acquired, calls>>
    /\ UNCHANGED notLock

\* catalog.c:290  if (!exit_hook_registered)
MustRegister(p) == ~exit_hook_registered[p]

\* catalog.c:297-299  parray_append(lock_files, pgut_strdup(lock_file))
KeepLockFilesAsIs(files, b) == files

AppendLockFile(files, b) == Append(files, b)

\* catalog.c:253-301  the PID is written, flushed, the file closed; then the
\* exit hook is registered, the path recorded and true returned
FillLock(p) ==
    /\ pc[p] = "fill"
    /\ LET fds == [fd EXCEPT ![p] = NoIno]
           written == [lock_inode EXCEPT ![fd[p]] = <<Pid(p)>>]
       IN
       /\ fd' = fds
       /\ lock_inode' = Reclaim(lock_dirent, fds, written)
    /\ atexit_hooks' = [atexit_hooks EXCEPT ![p] =
                           IF MustRegister(p) THEN @ + 1 ELSE @]
    /\ exit_hook_registered' = [exit_hook_registered EXCEPT ![p] = TRUE]
    /\ lock_files' = [lock_files EXCEPT ![p] = AppendLockFile(@, cur[p])]
    /\ ret' = [ret EXCEPT ![p] = "true"]
    /\ acquired' = [acquired EXCEPT ![p] = @ \cup {cur[p]}]
    /\ pc' = [pc EXCEPT ![p] = "idle"]
    /\ UNCHANGED <<lock_dirent, cur, ntries, encoded_pid, hook_i, calls,
                   fatal>>
    /\ UNCHANGED notLock

\* catalog.c:256-285  fio_write, fio_flush or fio_close fails: the descriptor
\* is closed; what reached the file is either nothing or the whole PID
FillLockFails(p) ==
    /\ pc[p] = "fill"
    /\ \E reached \in {<<>>, <<Pid(p)>>} :
          LET fds == [fd EXCEPT ![p] = NoIno]
              written == [lock_inode EXCEPT ![fd[p]] = reached]
          IN
          /\ fd' = fds
          /\ lock_inode' = Reclaim(lock_dirent, fds, written)
    /\ pc' = [pc EXCEPT ![p] = "fill_failed"]
    /\ UNCHANGED <<lock_dirent, cur, ntries, encoded_pid,
                   exit_hook_registered, atexit_hooks, lock_files, hook_i,
                   ret, acquired, calls, fatal>>
    /\ UNCHANGED notLock

\* catalog.c:261, 272, 281  fio_unlink(lock_file) before elog(ERROR)
UnlinkUnfilled(p) ==
    /\ pc[p] = "fill_failed"
    /\ LET dirent == [lock_dirent EXCEPT ![cur[p]] = NoIno] IN
       /\ lock_dirent' = dirent
       /\ lock_inode' = Reclaim(dirent, fd, lock_inode)
    /\ pc' = [pc EXCEPT ![p] = ExitPc(p)]
    /\ fatal' = [fatal EXCEPT ![p] = TRUE]
    /\ UNCHANGED <<cur, ntries, fd, encoded_pid, exit_hook_registered,
                   atexit_hooks, lock_files, hook_i, ret, acquired, calls>>
    /\ UNCHANGED notLock

\* the caller returns from main(): exit() runs the exit hooks
ProcExit(p) ==
    /\ pc[p] = "idle"
    /\ pc' = [pc EXCEPT ![p] = ExitPc(p)]
    /\ UNCHANGED <<lock_dirent, lock_inode, cur, ntries, fd, encoded_pid,
                   exit_hook_registered, atexit_hooks, lock_files, hook_i,
                   ret, acquired, calls, fatal>>
    /\ UNCHANGED notLock

\* catalog.c:45-66  unlink_lock_atexit: one fio_unlink per step, ENOENT is
\* tolerated; after the last one lock_files is freed
UnlinkLockAtexit(p) ==
    /\ pc[p] = "atexit"
    /\ IF hook_i[p] < Len(lock_files[p])
       THEN LET lock_file == lock_files[p][hook_i[p] + 1]
                dirent == [lock_dirent EXCEPT ![lock_file] = NoIno]
            IN
            /\ lock_dirent' = dirent
            /\ lock_inode' = Reclaim(dirent, fd, lock_inode)
            /\ hook_i' = [hook_i EXCEPT ![p] = @ + 1]
            /\ UNCHANGED <<lock_files, pc>>
       ELSE /\ lock_files' = [lock_files EXCEPT ![p] = <<>>]
            /\ pc' = [pc EXCEPT ![p] = "exited"]
            /\ UNCHANGED <<lock_dirent, lock_inode, hook_i>>
    /\ UNCHANGED <<cur, ntries, fd, encoded_pid, exit_hook_registered,
                   atexit_hooks, ret, acquired, calls, fatal>>
    /\ UNCHANGED notLock

\* a step inside lock_backup, exit() or the exit hook
LockStep(p) ==
    \/ TryCreate(p)
    \/ OpenLock(p)
    \/ ReadLock(p)
    \/ ProbeOwner(p)
    \/ UnlinkStale(p)
    \/ FillLock(p)
    \/ FillLockFails(p)
    \/ UnlinkUnfilled(p)
    \/ ProcExit(p)
    \/ UnlinkLockAtexit(p)

(***************************************************************************)
(* Control-file codec.  A text is the tuple of its character codes; a      *)
(* control file is a sequence of lines, each a key and its printed value.  *)
(* A 64-bit LSN is the pair of its 32-bit halves <<xlogid, xrecoff>>.      *)
(***************************************************************************)
NullStr == <<-1>>                  \* a NULL char pointer
Line(k, v) == [key |-> k, val |-> v]

\* pgBackupInit, catalog.c:1826-1857 (values of pg_probackup.h)
INVALID_BACKUP_ID == 0
BYTES_INVALID == -1
COMPRESS_LEVEL_DEFAULT == 1
BLCKSZ == 8192
XLOG_BLCKSZ == 8192

\* catalog.c:24  static const char *backupModes[]
backupModes ==
    [m \in {"BACKUP_MODE_INVALID", "BACKUP_MODE_DIFF_PAGE",
            "BACKUP_MODE_DIFF_PTRACK", "BACKUP_MODE_DIFF_DELTA",
            "BACKUP_MODE_FULL"} |->
        CASE m = "BACKUP_MODE_INVALID" -> <<>>
          [] m = "BACKUP_MODE_DIFF_PAGE" -> <<80, 65, 71, 69>>
          [] m = "BACKUP_MODE_DIFF_PTRACK" -> <<80, 84, 82, 65, 67, 75>>
          [] m = "BACKUP_MODE_DIFF_DELTA" -> <<68, 69, 76, 84, 65>>
          [] m = "BACKUP_MODE_FULL" -> <<70, 85, 76, 76>>]

\* catalog.c:307-311
pgBackupGetBackupMode(backup) == backupModes[backup.backup_mode]

ToLower(c) == IF c >= 65 /\ c <= 90 THEN c + 32 ELSE c

\* pg_strncasecmp(kw, v, n) = 0: the first n characters agree, case ignored
StrNCaseEq(kw, v, n) ==
    \A i \in 1..n :
       /\ i <= Len(kw)
       /\ i <= Len(v)
       /\ ToLower(kw[i]) = ToLower(v[i])

\* while (IsSpace(*v)) v++
RECURSIVE SkipSpaces(_)
SkipSpaces(v) ==
    IF Len(v) > 0 /\ v[1] \in {32, 9, 10, 11, 12, 13} THEN SkipSpaces(Tail(v))
    ELSE v

\* catalog.c:1717-1740  ("ERROR" stands for elog(ERROR))
parse_backup_mode(value) ==
    LET v == SkipSpaces(value)
        len == Len(v)
    IN
    IF len > 0 /\ StrNCaseEq(<<102, 117, 108, 108>>, v, len) THEN "BACKUP_MODE_FULL"
    ELSE IF len > 0 /\ StrNCaseEq(<<112, 97, 103, 101>>, v, len) THEN "BACKUP_MODE_DIFF_PAGE"
    ELSE IF len > 0 /\ StrNCaseEq(<<112, 116, 114, 97, 99, 107>>, v, len) THEN "BACKUP_MODE_DIFF_PTRACK"
    ELSE IF len > 0 /\ StrNCaseEq(<<100, 101, 108, 116, 97>>, v, len) THEN "BACKUP_MODE_DIFF_DELTA"
    ELSE "ERROR"

\* catalog.c:1762-1785
parse_compress_alg(arg) ==
    LET v == SkipSpaces(arg)
        len == Len(v)
    IN
    IF len = 0 THEN "ERROR"
    ELSE IF StrNCaseEq(<<122, 108, 105, 98>>, v, len) THEN "ZLIB_COMPRESS"
    ELSE IF StrNCaseEq(<<112, 103, 108, 122>>, v, len) THEN "PGLZ_COMPRESS"
    ELSE IF StrNCaseEq(<<110, 111, 110, 101>>, v, len) THEN "NONE_COMPRESS"
    ELSE "ERROR"

\* catalog.c:1787-1802
deparse_compress_alg(alg) ==
    CASE alg \in {"NONE_COMPRESS", "NOT_DEFINED_COMPRESS"} -> <<110, 111, 110, 101>>
      [] alg = "ZLIB_COMPRESS" -> <<122, 108, 105, 98>>
      [] alg = "PGLZ_COMPRESS" -> <<112, 103, 108, 122>>

\* status2str (util.c): the names readBackupControlFile compares with
status2str(status) ==
    CASE status = "BACKUP_STATUS_INVALID" -> <<85, 78, 75, 78, 79, 87, 78>>
      [] status = "BACKUP_STATUS_OK" -> <<79, 75>>
      [] status = "BACKUP_STATUS_ERROR" -> <<69, 82, 82, 79, 82>>
      [] status = "BACKUP_STATUS_RUNNING" -> <<82, 85, 78, 78, 73, 78, 71>>
      [] status = "BACKUP_STATUS_MERGING" -> <<77, 69, 82, 71, 73, 78, 71>>
      [] status = "BACKUP_STATUS_DELETING" -> <<68, 69, 76, 69, 84, 73, 78, 71>>
      [] status = "BACKUP_STATUS_DELETED" -> <<68, 69, 76, 69, 84, 69, 68>>
      [] status = "BACKUP_STATUS_DONE" -> <<68, 79, 78, 69>>
      [] status = "BACKUP_STATUS_ORPHAN" -> <<79, 82, 80, 72, 65, 78>>
      [] status = "BACKUP_STATUS_CORRUPT" -> <<67, 79, 82, 82, 85, 80, 84>>

\* catalog.c:1666-1689  the strcmp chain; an unknown name leaves the status
ParseStatus(status, old) ==
    IF status = <<79, 75>> THEN "BACKUP_STATUS_OK"
    ELSE IF status = <<69, 82, 82, 79, 82>> THEN "BACKUP_STATUS_ERROR"
    ELSE IF status = <<82, 85, 78, 78, 73, 78, 71>> THEN "BACKUP_STATUS_RUNNING"
    ELSE IF status = <<77, 69, 82, 71, 73, 78, 71>> THEN "BACKUP_STATUS_MERGING"
    ELSE IF status = <<68, 69, 76, 69, 84, 73, 78, 71>> THEN "BACKUP_STATUS_DELETING"
    ELSE IF status = <<68, 69, 76, 69, 84, 69, 68>> THEN "BACKUP_STATUS_DELETED"
    ELSE IF status = <<68, 79, 78, 69>> THEN "BACKUP_STATUS_DONE"
    ELSE IF status = <<79, 82, 80, 72, 65, 78>> THEN "BACKUP_STATUS_ORPHAN"
    ELSE IF status = <<67, 79, 82, 82, 85, 80, 84>> THEN "BACKUP_STATUS_CORRUPT"
    ELSE old

\* the character of a digit: 0-9 and then letters from ten (97 'a', 65 'A')
DigitChar(d, ten) == IF d < 10 THEN 48 + d ELSE ten + d - 10

\* a non-negative number printed in a base, most significant digit first
RECURSIVE PrintNum(_, _, _)
PrintNum(n, base, ten) ==
    IF n < base THEN <<DigitChar(n, ten)>>
    ELSE Append(PrintNum(n \div base, base, ten), DigitChar(n % base, ten))

\* the value of a character as a digit, -1 if it is none
DigitValue(c) ==
    IF c >= 48 /\ c <= 57 THEN c - 48
    ELSE IF ToLower(c) >= 97 /\ ToLower(c) <= 122 THEN ToLower(c) - 87
    ELSE -1

IsDigit(c, base) == DigitValue(c) >= 0 /\ DigitValue(c) < base

\* strtoull(str + i - 1, NULL, base): the digits up to the first character
\* that is none
RECURSIVE ScanNum(_, _, _, _)
ScanNum(str, i, acc, base) ==
    IF i > Len(str) \/ ~IsDigit(str[i], base) THEN acc
    ELSE ScanNum(str, i + 1, acc * base + DigitValue(str[i]), base)

\* base36enc / base36dec (util.c): digits 0-9a-z
base36enc(value) == PrintNum(value, 36, 97)
base36dec(str) == ScanNum(str, 1, 0, 36)

\* printf "%d", "%u", INT64_FORMAT, XID_FMT
PrintDec(n) == IF n < 0 THEN <<45>> \o PrintNum(-n, 10, 97) ELSE PrintNum(n, 10, 97)

\* parse_int64 / parse_uint32 / parse_uint64 (configuration.c)
IsNegative(v) == Len(v) > 0 /\ v[1] = 45
ParseDec(v) ==
    IF IsNegative(v) THEN -ScanNum(v, 2, 0, 10) ELSE ScanNum(v, 1, 0, 10)

\* printf "%X/%X"
PrintLsn(halves) ==
    PrintNum(halves[1], 16, 65) \o <<47>> \o PrintNum(halves[2], 16, 65)

\* sscanf(lsn, "%X/%X", &xlogid, &xrecoff): the position of the '/' that
\* ends the first number, the count of numbers scanned, the two numbers
RECURSIVE HexEnd(_, _)
HexEnd(str, i) ==
    IF i > Len(str) \/ ~IsDigit(str[i], 16) THEN i ELSE HexEnd(str, i + 1)

ScanLsnCount(str) ==
    LET slash == HexEnd(str, 1) IN
    IF slash = 1 THEN 0
    ELSE IF slash > Len(str) \/ str[slash] # 47 THEN 1
    ELSE IF HexEnd(str, slash + 1) = slash + 1 THEN 1
    ELSE 2

ScanLsn(str) ==
    <<ScanNum(str, 1, 0, 16), ScanNum(str, HexEnd(str, 1) + 1, 0, 16)>>

\* time2iso / parse_time (util.c, configuration.c): the date as the number
\* of the day, a blank, the second of the day
time2iso(t) == PrintDec(t \div 86400) \o <<32>> \o PrintDec(t % 86400)
parse_time(v) ==
    LET blank == CHOOSE i \in 1..Len(v) : v[i] = 32 IN
    ScanNum(v, 1, 0, 10) * 86400 + ScanNum(v, blank + 1, 0, 10)

\* "%s" of a bool as "true" / "false", and parse_bool (configuration.c)
BoolText(b) == IF b THEN <<116, 114, 117, 101>> ELSE <<102, 97, 108, 115, 101>>
parse_bool(v) == v = <<116, 114, 117, 101>>

\* catalog.c:1323-1325  (uint32) (start_lsn >> 32), (uint32) start_lsn
StartLsnHalves(backup) == <<backup.start_lsn[1], backup.start_lsn[2]>>

\* catalog.c:1298-1379
pgBackupWriteControl(backup) ==
    LET Opt(cond, line) == IF cond THEN <<line>> ELSE <<>> IN
    <<Line("#", <<67, 111, 110, 102, 105, 103, 117, 114, 97, 116, 105, 111, 110>>),
      Line("backup-mode", pgBackupGetBackupMode(backup)),
      Line("stream", BoolText(backup.stream)),
      Line("compress-alg", deparse_compress_alg(backup.compress_alg)),
      Line("compress-level", PrintDec(backup.compress_level)),
      Line("from-replica", BoolText(backup.from_replica)),
      Line("#", <<67, 111, 109, 112, 97, 116, 105, 98, 105, 108, 105, 116, 121>>),
      Line("block-size", PrintDec(backup.block_size)),
      Line("xlog-block-size", PrintDec(backup.wal_block_size)),
      Line("checksum-version", PrintDec(backup.checksum_version))>>
    \o Opt(backup.program_version # <<>>,
           Line("program-version", backup.program_version))
    \o Opt(backup.server_version # <<>>,
           Line("server-version", backup.server_version))
    \o <<Line("#", <<82, 101, 115, 117, 108, 116, 32, 98, 97, 99, 107, 117, 112, 32, 105, 110, 102, 111>>),
         Line("timelineid", PrintDec(backup.tli)),
         Line("start-lsn", PrintLsn(StartLsnHalves(backup))),
         Line("stop-lsn", PrintLsn(<<backup.stop_lsn[1], backup.stop_lsn[2]>>)),
         Line("start-time", time2iso(backup.start_time))>>
    \o Opt(backup.merge_time > 0, Line("merge-time", time2iso(backup.merge_time)))
    \o Opt(backup.end_time > 0, Line("end-time", time2iso(backup.end_time)))
    \o <<Line("recovery-xid", PrintDec(backup.recovery_xid))>>
    \o Opt(backup.recovery_time > 0,
           Line("recovery-time", time2iso(backup.recovery_time)))
    \o Opt(backup.data_bytes # BYTES_INVALID,
           Line("data-bytes", PrintDec(backup.data_bytes)))
    \o Opt(backup.wal_bytes # BYTES_INVALID,
           Line("wal-bytes", PrintDec(backup.wal_bytes)))
    \o Opt(backup.uncompressed_bytes >= 0,
           Line("uncompressed-bytes", PrintDec(backup.uncompressed_bytes)))
    \o Opt(backup.pgdata_bytes >= 0,
           Line("pgdata-bytes", PrintDec(backup.pgdata_bytes)))
    \o <<Line("status", status2str(backup.status))>>
    \o Opt(backup.parent_backup # 0,
           Line("parent-backup-id", base36enc(backup.parent_backup)))
    \o Opt(backup.primary_conninfo # NullStr,
           Line("primary_conninfo", backup.primary_conninfo))
    \o Opt(backup.external_dir_str # NullStr,
           Line("external-dirs", backup.external_dir_str))

\* a NULL parent_backup_link; a link is the place of the parent in the list
NoLink == 0

\* catalog.c:1823-1859
pgBackupInit ==
    [backup_id |-> INVALID_BACKUP_ID,
     backup_mode |-> "BACKUP_MODE_INVALID",
     status |-> "BACKUP_STATUS_INVALID",
     tli |-> 0,
     start_lsn |-> <<0, 0>>,
     stop_lsn |-> <<0, 0>>,
     start_time |-> 0,
     merge_time |-> 0,
     end_time |-> 0,
     recovery_xid |-> 0,
     recovery_time |-> 0,
     data_bytes |-> BYTES_INVALID,
     wal_bytes |-> BYTES_INVALID,
     uncompressed_bytes |-> 0,
     pgdata_bytes |-> 0,
     compress_alg |-> "NOT_DEFINED_COMPRESS",
     compress_level |-> COMPRESS_LEVEL_DEFAULT,
     block_size |-> BLCKSZ,
     wal_block_size |-> XLOG_BLCKSZ,
     checksum_version |-> 0,
     stream |-> FALSE,
     from_replica |-> FALSE,
     parent_backup |-> INVALID_BACKUP_ID,
     parent_backup_link |-> NoLink,
     primary_conninfo |-> NullStr,
     program_version |-> <<>>,
     server_version |-> <<>>,
     external_dir_str |-> NullStr]

\* catalog.c:1581-1610  the options readBackupControlFile asks for
ControlOptions ==
    {"backup-mode", "timelineid", "start-lsn", "stop-lsn", "start-time",
     "merge-time", "end-time", "recovery-xid", "recovery-time", "data-bytes",
     "wal-bytes", "uncompressed-bytes", "pgdata-bytes", "block-size",
     "xlog-block-size", "checksum-version", "program-version",
     "server-version", "stream", "status", "parent-backup-id", "compress-alg",
     "compress-level", "from-replica", "primary-conninfo", "external-dirs"}

\* config_read_opt (configuration.c) compares keys with '-' and '_' alike
KeyEquals(key, option) ==
    \/ key = option
    \/ key = "primary_conninfo" /\ option = "primary-conninfo"

\* config_read_opt: the lines that set option k, the value the last of them
\* gives, and the number of lines that set any option
LinesOf(lines, k) == {i \in 1..Len(lines) : KeyEquals(lines[i].key, k)}
HasOpt(lines, k) == LinesOf(lines, k) # {}
OptVal(lines, k) ==
    lines[CHOOSE i \in LinesOf(lines, k) : \A j \in LinesOf(lines, k) : j <= i].val
ParsedOptions(lines) ==
    Cardinality({i \in 1..Len(lines) :
                    \E k \in ControlOptions : KeyEquals(lines[i].key, k)})

\* options of type 'u' take an unsigned number: a sign is a parse error
UnsignedOptions ==
    {"timelineid", "block-size", "xlog-block-size", "checksum-version",
     "compress-level"}
OptionError(lines) ==
    \E k \in UnsignedOptions : HasOpt(lines, k) /\ IsNegative(OptVal(lines, k))

StartLsnParsedSwapped(v) == <<v[2], v[1]>>

\* catalog.c:1647-1648  ((uint64) xlogid << 32) | xrecoff
StartLsnParsed(v) == <<v[1], v[2]>>

NullBackup == [rc |-> "NULL"]
FatalError == [rc |-> "ERROR"]
Loaded(backup) == [rc |-> "OK", backup |-> backup]

\* catalog.c:1567-1715  exists: fio_access(path, F_OK) = 0
readBackupControlFile(exists, lines) ==
    LET Num(k, default) == IF HasOpt(lines, k) THEN ParseDec(OptVal(lines, k)) ELSE default
        Time(k) == IF HasOpt(lines, k) THEN parse_time(OptVal(lines, k)) ELSE 0
        Str(k, default) == IF HasOpt(lines, k) THEN OptVal(lines, k) ELSE default
        Bool(k) == IF HasOpt(lines, k) THEN parse_bool(OptVal(lines, k)) ELSE FALSE
        init == pgBackupInit
        mode == IF HasOpt(lines, "backup-mode")
                THEN parse_backup_mode(OptVal(lines, "backup-mode"))
                ELSE init.backup_mode
        alg == IF HasOpt(lines, "compress-alg")
               THEN parse_compress_alg(OptVal(lines, "compress-alg"))
               ELSE init.compress_alg
        backup ==
           [backup_id |-> init.backup_id,
            backup_mode |-> mode,
            parent_backup_link |-> init.parent_backup_link,
            status |-> IF HasOpt(lines, "status")
                       THEN ParseStatus(OptVal(lines, "status"), init.status)
                       ELSE init.status,
            tli |-> Num("timelineid", init.tli),
            start_lsn |-> IF /\ HasOpt(lines, "start-lsn")
                             /\ ScanLsnCount(OptVal(lines, "start-lsn")) = 2
                          THEN StartLsnParsed(ScanLsn(OptVal(lines, "start-lsn")))
                          ELSE init.start_lsn,
            stop_lsn |-> IF /\ HasOpt(lines, "stop-lsn")
                            /\ ScanLsnCount(OptVal(lines, "stop-lsn")) = 2
                         THEN ScanLsn(OptVal(lines, "stop-lsn"))
                         ELSE init.stop_lsn,
            start_time |-> Time("start-time"),
            merge_time |-> Time("merge-time"),
            end_time |-> Time("end-time"),
            recovery_xid |-> Num("recovery-xid", init.recovery_xid),
            recovery_time |-> Time("recovery-time"),
            data_bytes |-> Num("data-bytes", init.data_bytes),
            wal_bytes |-> Num("wal-bytes", init.wal_bytes),
            uncompressed_bytes |-> Num("uncompressed-bytes", init.uncompressed_bytes),
            pgdata_bytes |-> Num("pgdata-bytes", init.pgdata_bytes),
            compress_alg |-> alg,
            compress_level |-> Num("compress-level", init.compress_level),
            block_size |-> Num("block-size", init.block_size),
            wal_block_size |-> Num("xlog-block-size", init.wal_block_size),
            checksum_version |-> Num("checksum-version", init.checksum_version),
            stream |-> Bool("stream"),
            from_replica |-> Bool("from-replica"),
            parent_backup |-> IF HasOpt(lines, "parent-backup-id")
                              THEN base36dec(OptVal(lines, "parent-backup-id"))
                              ELSE init.parent_backup,
            primary_conninfo |-> Str("primary-conninfo", init.primary_conninfo),
            program_version |-> Str("program-version", init.program_version),
            server_version |-> Str("server-version", init.server_version),
            external_dir_str |-> Str("external-dirs", init.external_dir_str)]
    IN
    IF ~exists THEN NullBackup
    ELSE IF OptionError(lines) THEN FatalError
    ELSE IF ParsedOptions(lines) = 0 THEN NullBackup
    ELSE IF backup.start_time = 0 THEN NullBackup
    ELSE IF mode = "ERROR" \/ alg = "ERROR" THEN FatalError
    ELSE Loaded(backup)

(***************************************************************************)
(* A backup written by write_backup and read back by read_backup.          *)
(***************************************************************************)
\* a full backup as do_backup leaves it
TypicalBackup ==
    [pgBackupInit EXCEPT
        !.backup_id = 100000,
        !.backup_mode = "BACKUP_MODE_FULL",
        !.status = "BACKUP_STATUS_OK",
        !.tli = 1,
        !.start_lsn = <<0, 50331688>>,
        !.stop_lsn = <<0, 50331960>>,
        !.start_time = 100000,
        !.end_time = 100060,
        !.recovery_xid = 570,
        !.recovery_time = 100059,
        !.data_bytes = 4096,
        !.wal_bytes = 16,
        !.uncompressed_bytes = 8192,
        !.pgdata_bytes = 8192,
        !.compress_alg = "NONE_COMPRESS",
        !.program_version = <<50, 46, 50, 46, 53>>,
        !.server_version = <<49, 49>>]

\* the typical backup with one field changed
Vary(field, values) == {[TypicalBackup EXCEPT ![field] = v] : v \in values}

Records ==
    {TypicalBackup, [pgBackupInit EXCEPT !.start_time = 1]}
    \cup Vary("backup_mode", DOMAIN backupModes)
    \cup Vary("status",
              {"BACKUP_STATUS_INVALID", "BACKUP_STATUS_OK",
               "BACKUP_STATUS_ERROR", "BACKUP_STATUS_RUNNING",
               "BACKUP_STATUS_MERGING", "BACKUP_STATUS_DELETING",
               "BACKUP_STATUS_DELETED", "BACKUP_STATUS_DONE",
               "BACKUP_STATUS_ORPHAN", "BACKUP_STATUS_CORRUPT"})
    \cup Vary("compress_alg",
              {"NOT_DEFINED_COMPRESS", "NONE_COMPRESS", "PGLZ_COMPRESS",
               "ZLIB_COMPRESS"})
    \cup Vary("compress_level", {0, 1, 9})
    \cup Vary("stream", BOOLEAN)
    \cup Vary("from_replica", BOOLEAN)
    \cup Vary("block_size", {BLCKSZ, 2 * BLCKSZ})
    \cup Vary("wal_block_size", {XLOG_BLCKSZ, 2 * XLOG_BLCKSZ})
    \cup Vary("checksum_version", {0, 1})
    \cup Vary("program_version", {<<>>, <<50, 46, 50, 46, 53>>})
    \cup Vary("server_version", {<<>>, <<57, 46, 54>>})
    \cup Vary("tli", {0, 1, 2, 17})
    \cup Vary("start_lsn", {<<0, 0>>, <<0, 1>>, <<1, 0>>, <<2, 1>>, <<10, 255>>})
    \cup Vary("stop_lsn", {<<0, 0>>, <<0, 1>>, <<1, 0>>, <<1, 2>>, <<171, 16>>})
    \cup Vary("start_time", {0, 1, 86399, 86400, 86401})
    \cup Vary("merge_time", {0, 1, 100061})
    \cup Vary("end_time", {0, 1, 100061})
    \cup Vary("recovery_xid", {0, 1, 571})
    \cup Vary("recovery_time", {0, 1, 86400})
    \cup Vary("data_bytes", {BYTES_INVALID, 0, 1})
    \cup Vary("wal_bytes", {BYTES_INVALID, 0, 1})
    \cup Vary("uncompressed_bytes", {BYTES_INVALID, 0, 1})
    \cup Vary("pgdata_bytes", {BYTES_INVALID, 0, 1})
    \cup Vary("parent_backup", {0, 1, 35, 36, 1295, 1296, 99999})
    \cup Vary("primary_conninfo", {NullStr, <<104, 111, 115, 116, 61, 100, 98>>})
    \cup Vary("external_dir_str", {NullStr, <<47, 97, 58, 47, 98>>})

\* catalog.c:1384-1417  write_backup, every call of it succeeding
CodecWrite ==
    /\ c_pc = "start"
    /\ c_file' = pgBackupWriteControl(c_backup)
    /\ c_pc' = "written"
    /\ UNCHANGED <<c_backup, c_read>>
    /\ UNCHANGED notCodec

\* catalog.c:72-83  read_backup of the same backup
CodecRead ==
    /\ c_pc = "written"
    /\ c_read' = readBackupControlFile(TRUE, c_file)
    /\ c_pc' = "read"
    /\ UNCHANGED <<c_backup, c_file>>
    /\ UNCHANGED notCodec

\* the next backup to write
CodecAgain ==
    /\ c_pc = "read"
    /\ c_backup' \in Records
    /\ c_file' = <<>>
    /\ c_read' = NullBackup
    /\ c_pc' = "start"
    /\ UNCHANGED notCodec

(***************************************************************************)
(* write_backup and the readers of backup.control.  A file is the inode    *)
(* its directory entry names; an open stream keeps its inode, also after   *)
(* the entry was renamed over or unlinked.                                 *)
(***************************************************************************)
BACKUP_CONTROL_FILE == "backup.control"

TempPathInPlace(path) == path

\* catalog.c:1393  snprintf(path_temp, sizeof(path_temp), "%s.tmp", path)
TempPath(path) == path \o ".tmp"

CtlNames == {BACKUP_CONTROL_FILE, TempPath(BACKUP_CONTROL_FILE)}
CtlInos == 1..(NReaders + 2)

\* the backup as it is while it runs and as it is when it is done
RunningBackup ==
    [TypicalBackup EXCEPT !.status = "BACKUP_STATUS_RUNNING", !.end_time = 0,
                          !.stop_lsn = <<0, 0>>, !.data_bytes = BYTES_INVALID]
CtlRecords == {RunningBackup, TypicalBackup}

CtlInoInUse(dirent, wfp, rfd, i) ==
    \/ \E n \in CtlNames : dirent[n] = i
    \/ wfp = i
    \/ \E r \in Readers : rfd[r] = i

CtlNewIno(dirent, wfp, rfd) ==
    CHOOSE i \in CtlInos :
        /\ ~CtlInoInUse(dirent, wfp, rfd, i)
        /\ \A j \in CtlInos : j < i => CtlInoInUse(dirent, wfp, rfd, j)

CtlReclaim(dirent, wfp, rfd, inode) ==
    [i \in CtlInos |-> IF CtlInoInUse(dirent, wfp, rfd, i) THEN inode[i] ELSE <<>>]

\* what a path names: nothing, or a file with its lines
FileState(dirent, inode, path) ==
    [exists |-> dirent[path] # NoIno,
     lines |-> IF dirent[path] # NoIno THEN inode[dirent[path]] ELSE <<>>]

ControlState == FileState(ctl_dirent, ctl_inode, BACKUP_CONTROL_FILE)
NoFile == [exists |-> FALSE, lines |-> <<>>]
Version(backup) == [exists |-> TRUE, lines |-> pgBackupWriteControl(backup)]

readerVars == <<r_pc, r_fd, r_seen, r_ok, r_ret>>
writerVars == <<w_pc, w_backup, w_fp, w_n, w_prev>>

\* catalog.c:1384-1393  write_backup(backup) is entered by a process
WriteBackup(backup) ==
    /\ w_pc \in {"idle", "returned", "fatal", "killed"}
    /\ w_pc' = "open"
    /\ w_backup' = backup
    /\ w_n' = 0
    /\ w_prev' = ControlState
    /\ UNCHANGED <<ctl_dirent, ctl_inode, w_fp, readerVars, notCtl>>

\* catalog.c:1395  fio_fopen(path_temp, PG_BINARY_W): creates or truncates
OpenTemp ==
    /\ w_pc = "open"
    /\ LET tmp == TempPath(BACKUP_CONTROL_FILE)
           ino == IF ctl_dirent[tmp] # NoIno THEN ctl_dirent[tmp]
                  ELSE CtlNewIno(ctl_dirent, w_fp, r_fd)
       IN /\ ctl_dirent' = [ctl_dirent EXCEPT ![tmp] = ino]
          /\ ctl_inode' = [ctl_inode EXCEPT ![ino] = <<>>]
          /\ w_fp' = ino
    /\ w_pc' = "write"
    /\ UNCHANGED <<w_backup, w_n, w_prev, readerVars, notCtl>>

\* catalog.c:1396-1398  fp == NULL: elog(ERROR)
OpenTempFails ==
    /\ w_pc = "open"
    /\ w_pc' = "fatal"
    /\ UNCHANGED <<ctl_dirent, ctl_inode, w_backup, w_fp, w_n, w_prev,
                   readerVars, notCtl>>

\* catalog.c:1400  pgBackupWriteControl(fp, backup): the next line reaches
\* the file
WriteLine ==
    /\ w_pc = "write"
    /\ LET text == pgBackupWriteControl(w_backup) IN
       /\ w_n < Len(text)
       /\ ctl_inode' = [ctl_inode EXCEPT ![w_fp] = Append(@, text[w_n + 1])]
       /\ w_n' = w_n + 1
       /\ w_pc' = IF w_n + 1 = Len(text) THEN "flush" ELSE "write"
    /\ UNCHANGED <<ctl_dirent, w_backup, w_fp, w_prev, readerVars, notCtl>>

\* catalog.c:1402  fio_fflush(fp) || fio_fclose(fp) both return 0
FlushClose ==
    /\ w_pc = "flush"
    /\ w_pc' = "rename"
    /\ w_fp' = NoIno
    /\ ctl_inode' = CtlReclaim(ctl_dirent, NoIno, r_fd, ctl_inode)
    /\ UNCHANGED <<ctl_dirent, w_backup, w_n, w_prev, readerVars, notCtl>>

\* unlink(path): the entry goes, the inode stays while a stream is open
CtlUnlink(dirent, path) == [dirent EXCEPT ![path] = NoIno]

\* catalog.c:1402-1408  the flush or the close fails: fio_unlink(path_temp),
\* elog(ERROR)
FlushCloseFails ==
    /\ w_pc = "flush"
    /\ ctl_dirent' = CtlUnlink(ctl_dirent, TempPath(BACKUP_CONTROL_FILE))
    /\ w_fp' = NoIno
    /\ ctl_inode' = CtlReclaim(ctl_dirent', NoIno, r_fd, ctl_inode)
    /\ w_pc' = "fatal"
    /\ UNCHANGED <<w_backup, w_n, w_prev, readerVars, notCtl>>

\* rename(from, to): to names the inode of from, from names nothing; a
\* rename of a path to itself changes nothing
CtlRename(dirent, from, to) ==
    IF from = to THEN dirent
    ELSE [dirent EXCEPT ![to] = dirent[from], ![from] = NoIno]

\* catalog.c:1410  fio_rename(path_temp, path) returns 0
RenameTemp ==
    /\ w_pc = "rename"
    /\ ctl_dirent' = CtlRename(ctl_dirent, TempPath(BACKUP_CONTROL_FILE),
                               BACKUP_CONTROL_FILE)
    /\ ctl_inode' = CtlReclaim(ctl_dirent', w_fp, r_fd, ctl_inode)
    /\ r_ok' = [r \in Readers |->
                   IF r_pc[r] \in {"access", "open", "read"}
                   THEN r_ok[r] \cup {Version(w_backup)} ELSE r_ok[r]]
    /\ w_pc' = "returned"
    /\ UNCHANGED <<w_backup, w_fp, w_n, w_prev, r_pc, r_fd, r_seen, r_ret,
                   notCtl>>

\* catalog.c:1410-1416  the rename fails: fio_unlink(path_temp), elog(ERROR)
RenameTempFails ==
    /\ w_pc = "rename"
    /\ ctl_dirent' = CtlUnlink(ctl_dirent, TempPath(BACKUP_CONTROL_FILE))
    /\ ctl_inode' = CtlReclaim(ctl_dirent', w_fp, r_fd, ctl_inode)
    /\ w_pc' = "fatal"
    /\ UNCHANGED <<w_backup, w_fp, w_n, w_prev, readerVars, notCtl>>

\* the writing process is killed between two of its system calls: its
\* stream is closed, nothing else is undone
WriterKilled ==
    /\ w_pc \in {"write", "flush", "rename"}
    /\ w_pc' = "killed"
    /\ w_fp' = NoIno
    /\ ctl_inode' = CtlReclaim(ctl_dirent, NoIno, r_fd, ctl_inode)
    /\ UNCHANGED <<ctl_dirent, w_backup, w_n, w_prev, readerVars, notCtl>>

\* catalog.c:72-83, 1567-1612  read_backup is entered by reader r
ReadBackup(r) ==
    /\ r_pc[r] \in {"idle", "done"}
    /\ r_pc' = [r_pc EXCEPT ![r] = "access"]
    /\ r_seen' = [r_seen EXCEPT ![r] = NoFile]
    /\ r_ok' = [r_ok EXCEPT ![r] = {ControlState}]
    /\ r_ret' = [r_ret EXCEPT ![r] = NullBackup]
    /\ UNCHANGED <<ctl_dirent, ctl_inode, r_fd, writerVars, notCtl>>

\* catalog.c:1613-1618  fio_access(path, F_OK)
AccessControl(r) ==
    /\ r_pc[r] = "access"
    /\ IF ctl_dirent[BACKUP_CONTROL_FILE] = NoIno
       THEN /\ r_pc' = [r_pc EXCEPT ![r] = "done"]
            /\ r_ret' = [r_ret EXCEPT ![r] = readBackupControlFile(FALSE, <<>>)]
       ELSE /\ r_pc' = [r_pc EXCEPT ![r] = "open"]
            /\ UNCHANGED r_ret
    /\ UNCHANGED <<ctl_dirent, ctl_inode, r_fd, r_seen, r_ok, writerVars,
                   notCtl>>

\* catalog.c:1620  config_read_opt opens the file; a file that is gone
\* gives no option
OpenControl(r) ==
    /\ r_pc[r] = "open"
    /\ IF ctl_dirent[BACKUP_CONTROL_FILE] = NoIno
       THEN /\ r_pc' = [r_pc EXCEPT ![r] = "done"]
            /\ r_ret' = [r_ret EXCEPT ![r] = readBackupControlFile(TRUE, <<>>)]
            /\ UNCHANGED <<r_fd, r_seen>>
       ELSE /\ r_pc' = [r_pc EXCEPT ![r] = "read"]
            /\ r_fd' = [r_fd EXCEPT ![r] = ctl_dirent[BACKUP_CONTROL_FILE]]
            /\ r_seen' = [r_seen EXCEPT ![r] = [exists |-> TRUE, lines |-> <<>>]]
            /\ UNCHANGED r_ret
    /\ UNCHANGED <<ctl_dirent, ctl_inode, r_ok, writerVars, notCtl>>

\* catalog.c:1620-1714  config_read_opt reads the next line; at the end of
\* the file it closes the stream and readBackupControlFile returns
ReadControlLine(r) ==
    /\ r_pc[r] = "read"
    /\ LET file == ctl_inode[r_fd[r]]
           n == Len(r_seen[r].lines)
       IN IF n < Len(file)
          THEN /\ r_seen' = [r_seen EXCEPT ![r].lines = Append(@, file[n + 1])]
               /\ UNCHANGED <<r_pc, r_fd, r_ret, ctl_inode>>
          ELSE /\ r_pc' = [r_pc EXCEPT ![r] = "done"]
               /\ r_fd' = [r_fd EXCEPT ![r] = NoIno]
               /\ r_ret' = [r_ret EXCEPT ![r] =
                               readBackupControlFile(TRUE, r_seen[r].lines)]
               /\ ctl_inode' = CtlReclaim(ctl_dirent, w_fp, r_fd', ctl_inode)
               /\ UNCHANGED r_seen
    /\ UNCHANGED <<ctl_dirent, r_ok, writerVars, notCtl>>

(***************************************************************************)
(* catalog_get_backup_list.  The instance directory maps a name to what    *)
(* it is: nothing, a plain file, or a backup directory with the state of   *)
(* its backup.control.                                                     *)
(***************************************************************************)
\* the names the instance directory may hold: the backup ids, the name
\* "1-" that is none, the hidden name ".1", and the name "0", which
\* base36dec decodes to 0
IdNames == {base36enc(t) : t \in 1..MaxStartTime}
OddName == <<49, 45>>
HiddenName == <<46, 49>>
ZeroName == <<48>>
DirNames == IdNames \cup {OddName, HiddenName, ZeroName}

NoEntry == [kind |-> "none", control |-> NoFile]
PlainFile == [kind |-> "file", control |-> NoFile]
BackupDir(control) == [kind |-> "dir", control |-> control]

\* the backups of the instance: a full one, a page backup of an earlier one
ListRecord(t) ==
    [TypicalBackup EXCEPT
        !.start_time = t,
        !.backup_id = t,
        !.backup_mode = IF t = 1 THEN "BACKUP_MODE_FULL" ELSE "BACKUP_MODE_DIFF_PAGE",
        !.parent_backup = t - 1]

\* a backup.control that is missing, empty, or written by write_backup
ControlStates ==
    {NoFile, [exists |-> TRUE, lines |-> <<>>]}
    \cup {Version(ListRecord(t)) : t \in 1..MaxStartTime}

\* what a name may be in the directory
Entries(name) ==
    IF name = HiddenName THEN {NoEntry, BackupDir(Version(ListRecord(1)))}
    ELSE IF name = OddName THEN {NoEntry, PlainFile, BackupDir(NoFile)}
    ELSE IF name = ZeroName THEN {NoEntry, BackupDir(NoFile)}
    ELSE {NoEntry} \cup {BackupDir(c) : c \in ControlStates}

Range(s) == {s[i] : i \in 1..Len(s)}

RECURSIVE SetToSeq(_)
SetToSeq(S) ==
    IF S = {} THEN <<>>
    ELSE LET x == CHOOSE y \in S : TRUE IN <<x>> \o SetToSeq(S \ {x})

\* catalog.c:416-425  the entries fio_readdir gives that are directories
\* and not hidden
ListedDirs(dir) ==
    SetToSeq({n \in DirNames : dir[n].kind = "dir" /\ n[1] # 46})

\* catalog.c:1872-1884
pgBackupCompareId(l, r) ==
    IF l.start_time > r.start_time THEN 1
    ELSE IF l.start_time < r.start_time THEN -1
    ELSE 0

pgBackupCompareIdAsc(l, r) == pgBackupCompareId(l, r)

\* catalog.c:1887-1891
pgBackupCompareIdDesc(l, r) == -pgBackupCompareId(l, r)

\* catalog.c:432-446  the pgBackup of one directory: read from its control
\* file, or a stub named after the directory ("ERROR": elog(ERROR))
ScanBackupDir(name, control) ==
    LET read == readBackupControlFile(control.exists, control.lines) IN
    IF read.rc = "ERROR" THEN FatalError
    ELSE LET backup == IF read.rc = "NULL"
                       THEN [pgBackupInit EXCEPT !.start_time = base36dec(name)]
                       ELSE read.backup
         IN Loaded([backup EXCEPT !.backup_id = backup.start_time])

\* catalog.c:447-453  the backups the loop appends
Requested(scanned, id) ==
    SelectSeq(scanned,
              LAMBDA b : ~(id # INVALID_BACKUP_ID /\ id # b.start_time))

\* parray_qsort(backups, pgBackupCompareIdDesc): the orders of the list in
\* which no element stands before one the comparison puts first
Sorted(list) ==
    \A i, j \in 1..Len(list) : i < j => pgBackupCompareIdDesc(list[i], list[j]) <= 0
Orders(list) ==
    LET n == Len(list) IN
    {[i \in 1..n |-> list[f[i]]] :
        f \in {g \in [1..n -> 1..n] : \A i, j \in 1..n : i # j => g[i] # g[j]}}
parray_qsort(list) == {l \in Orders(list) : Sorted(l)}

RECURSIVE parray_bsearch_wrong_half(_, _, _, _)
parray_bsearch_wrong_half(list, key, lo, hi) ==
    IF lo >= hi THEN NoLink
    ELSE LET idx == (lo + hi) \div 2
             comparison == pgBackupCompareIdDesc(key, list[idx])
         IN IF comparison > 0 THEN parray_bsearch_wrong_half(list, key, lo, idx)
            ELSE IF comparison < 0
                 THEN parray_bsearch_wrong_half(list, key, idx + 1, hi)
            ELSE idx

\* parray_bsearch(backups, &key, pgBackupCompareIdDesc): bsearch(3) over
\* the places lo..hi-1, NoLink if nothing compares equal
RECURSIVE parray_bsearch(_, _, _, _)
parray_bsearch(list, key, lo, hi) ==
    IF lo >= hi THEN NoLink
    ELSE LET idx == (lo + hi) \div 2
             comparison == pgBackupCompareIdDesc(key, list[idx])
         IN IF comparison < 0 THEN parray_bsearch(list, key, lo, idx)
            ELSE IF comparison > 0 THEN parray_bsearch(list, key, idx + 1, hi)
            ELSE idx

\* catalog.c:475-489  link incremental backups with their ancestors
LinkAncestors(list) ==
    [i \in 1..Len(list) |->
        IF list[i].backup_mode = "BACKUP_MODE_FULL" THEN list[i]
        ELSE LET ancestor == parray_bsearch(list,
                                            [start_time |-> list[i].parent_backup],
                                            1, Len(list) + 1)
             IN IF ancestor # NoLink
                THEN [list[i] EXCEPT !.parent_backup_link = ancestor]
                ELSE list[i]]

\* catalog.c:393-491  the call returns a list
catalog_get_backup_list(id) ==
    /\ list_ret = "none"
    /\ LET names == ListedDirs(instance_dir)
           scan == [i \in 1..Len(names) |->
                       ScanBackupDir(names[i], instance_dir[names[i]].control)]
       IN /\ \A i \in 1..Len(names) : scan[i].rc = "OK"
          /\ \E sorted \in parray_qsort(
                              Requested([i \in 1..Len(names) |-> scan[i].backup], id)) :
                backups' = LinkAncestors(sorted)
    /\ requested_backup_id' = id
    /\ list_ret' = "OK"
    /\ UNCHANGED <<instance_dir, notList>>

\* catalog.c:406-412, 455-467, 493-500  the directory cannot be opened or
\* read, or a control file cannot be parsed: elog(ERROR)
catalog_get_backup_list_fails(id) ==
    /\ list_ret = "none"
    /\ requested_backup_id' = id
    /\ backups' = <<>>
    /\ list_ret' = "ERROR"
    /\ UNCHANGED <<instance_dir, notList>>

\* the caller is done with the list (parray_walk(pgBackupFree), parray_free)
FreeBackupList ==
    /\ list_ret # "none"
    /\ list_ret' = "none"
    /\ backups' = <<>>
    /\ requested_backup_id' = INVALID_BACKUP_ID
    /\ UNCHANGED <<instance_dir, notList>>

\* another command adds, rewrites or removes an entry of the directory
ChangeEntry(name, entry) ==
    /\ list_ret = "none"
    /\ instance_dir[name] # entry
    /\ instance_dir' = [instance_dir EXCEPT ![name] = entry]
    /\ UNCHANGED <<requested_backup_id, backups, list_ret, notList>>

(***************************************************************************)
(* The parent-chain functions.  They are given a list that                 *)
(* catalog_get_backup_list returned: sorted, newest first, the incremental *)
(* backups linked with the parents the list holds.  A pgBackup * is the    *)
(* place of the backup in the list, NULL is NoLink.                        *)
(***************************************************************************)
ChainStatuses == {"BACKUP_STATUS_OK", "BACKUP_STATUS_DONE", "BACKUP_STATUS_ERROR"}
ChainTlis == {1, 2}

\* what the backup started at t may be: a full backup, or a delta backup
\* of an earlier backup, whether that one is still in the catalog or not
ChainBackups(t) ==
    {[TypicalBackup EXCEPT !.start_time = t, !.backup_id = t,
                           !.status = s, !.tli = l]
        : s \in ChainStatuses, l \in ChainTlis}
    \cup {[TypicalBackup EXCEPT !.start_time = t, !.backup_id = t,
                                !.backup_mode = "BACKUP_MODE_DIFF_DELTA",
                                !.status = s, !.tli = l, !.parent_backup = p]
             : s \in ChainStatuses, l \in ChainTlis, p \in 0..(t - 1)}

\* catalog.c:472-489  the list of these backups as it is returned
ChainList(records) ==
    LinkAncestors(CHOOSE l \in parray_qsort(SetToSeq(records)) : TRUE)

StatusOkOrDone(backup) ==
    backup.status \in {"BACKUP_STATUS_OK", "BACKUP_STATUS_DONE"}

\* catalog.c:2031-2040  the while loop of scan_parent_chain: the backup it
\* stops at and the last invalid backup it passed
RECURSIVE ScanChainWalk(_, _, _)
ScanChainWalk(list, target_backup, invalid_backup) ==
    IF list[target_backup].parent_backup_link = NoLink
    THEN <<target_backup, invalid_backup>>
    ELSE ScanChainWalk(list, list[target_backup].parent_backup_link,
                       IF ~StatusOkOrDone(list[target_backup])
                       THEN target_backup ELSE invalid_backup)

scan_parent_chain_base_unchecked(list, current_backup) ==
    LET walk == ScanChainWalk(list, current_backup, NoLink)
        target_backup == walk[1]
        invalid_backup == walk[2]
    IN IF list[target_backup].backup_mode # "BACKUP_MODE_FULL"
       THEN [rc |-> 0, result_backup |-> target_backup]
       ELSE IF invalid_backup # NoLink
       THEN [rc |-> 1, result_backup |-> invalid_backup]
       ELSE [rc |-> 2, result_backup |-> target_backup]

\* catalog.c:2020-2067
scan_parent_chain(list, current_backup) ==
    LET walk == ScanChainWalk(list, current_backup, NoLink)
        target_backup == walk[1]
        invalid_backup ==
            IF /\ list[target_backup].backup_mode = "BACKUP_MODE_FULL"
               /\ ~StatusOkOrDone(list[target_backup])
            THEN target_backup ELSE walk[2]
    IN IF list[target_backup].backup_mode # "BACKUP_MODE_FULL"
       THEN [rc |-> 0, result_backup |-> target_backup]
       ELSE IF invalid_backup # NoLink
       THEN [rc |-> 1, result_backup |-> invalid_backup]
       ELSE [rc |-> 2, result_backup |-> target_backup]

\* catalog.c:2085-2089  the while loop of is_parent: the backup it stops at
RECURSIVE IsParentWalk(_, _, _)
IsParentWalk(list, parent_backup_time, child_backup) ==
    IF /\ list[child_backup].parent_backup_link # NoLink
       /\ list[child_backup].parent_backup # parent_backup_time
    THEN IsParentWalk(list, parent_backup_time,
                      list[child_backup].parent_backup_link)
    ELSE child_backup

is_parent_never_itself(list, parent_backup_time, child_backup, inclusive) ==
    list[IsParentWalk(list, parent_backup_time, child_backup)].parent_backup
        = parent_backup_time

\* catalog.c:2076-2098
is_parent(list, parent_backup_time, child_backup, inclusive) ==
    IF inclusive /\ list[child_backup].start_time = parent_backup_time
    THEN TRUE
    ELSE list[IsParentWalk(list, parent_backup_time, child_backup)].parent_backup
            = parent_backup_time

\* the place at which a loop over the list from its first element stops,
\* given the places that make it stop; NoLink if it runs to the end
FirstOf(places) ==
    IF places = {} THEN NoLink
    ELSE CHOOSE i \in places : \A j \in places : i <= j

catalog_get_last_data_backup_any_tli(list, tli, current_start_time) ==
    LET IsFull(i) == /\ list[i].backup_mode = "BACKUP_MODE_FULL"
                     /\ StatusOkOrDone(list[i])
        full_backup == FirstOf({i \in 1..Len(list) : IsFull(i)})
        IsChild(i) ==
            /\ StatusOkOrDone(list[i])
            /\ scan_parent_chain(list, i).rc = 2
            /\ is_parent(list, list[full_backup].start_time, i, TRUE)
    IN IF full_backup = NoLink THEN NoLink
       ELSE FirstOf({i \in 1..Len(list) : IsChild(i)})

\* catalog.c:555-638  the latest valid child of the latest valid FULL
\* backup on the timeline; current_start_time only decides whether a
\* backup that is not OK or DONE is passed over with a warning or without
catalog_get_last_data_backup(list, tli, current_start_time) ==
    LET IsFull(i) == /\ list[i].backup_mode = "BACKUP_MODE_FULL"
                     /\ StatusOkOrDone(list[i])
                     /\ list[i].tli = tli
        full_backup == FirstOf({i \in 1..Len(list) : IsFull(i)})
        IsChild(i) ==
            /\ StatusOkOrDone(list[i])
            /\ scan_parent_chain(list, i).rc = 2
            /\ is_parent(list, list[full_backup].start_time, i, TRUE)
    IN IF full_backup = NoLink THEN NoLink
       ELSE FirstOf({i \in 1..Len(list) : IsChild(i)})

NoCall == [fn |-> "none", args |-> <<>>, ret |-> <<>>]

ScanParentChain(current_backup) ==
    /\ chain_call = NoCall
    /\ LET r == scan_parent_chain(backup_list, current_backup)
       IN chain_call' = [fn |-> "scan_parent_chain",
                         args |-> <<current_backup>>,
                         ret |-> <<r.rc, r.result_backup>>]
    /\ UNCHANGED <<backup_list, notChain>>

IsParent(parent_backup_time, child_backup, inclusive) ==
    /\ chain_call = NoCall
    /\ chain_call' = [fn |-> "is_parent",
                      args |-> <<parent_backup_time, child_backup, inclusive>>,
                      ret |-> <<is_parent(backup_list, parent_backup_time,
                                          child_backup, inclusive)>>]
    /\ UNCHANGED <<backup_list, notChain>>

GetLastDataBackup(tli, current_start_time) ==
    /\ chain_call = NoCall
    /\ chain_call' = [fn |-> "catalog_get_last_data_backup",
                      args |-> <<tli, current_start_time>>,
                      ret |-> <<catalog_get_last_data_backup(
                                    backup_list, tli, current_start_time)>>]
    /\ UNCHANGED <<backup_list, notChain>>

\* the caller has used the result
ChainReturn ==
    /\ chain_call # NoCall
    /\ chain_call' = NoCall
    /\ UNCHANGED <<backup_list, notChain>>

\* no list, no call
ChainIdle ==
    /\ backup_list = <<>>
    /\ chain_call = NoCall

(***************************************************************************)
(* catalog_get_timelines.  The WAL archive is the list of its files as     *)
(* dir_list_file and parray_qsort(pgFileComparePath) give it; a file is    *)
(* what the tests on its name read from it.  An LSN is the pair of its two *)
(* 32-bit halves, as it is in a control file.  A timelineInfo * is the     *)
(* place of the timeline in timelineinfos, a pgBackup * the place of the   *)
(* backup in the list of catalog_get_backup_list; NULL is 0.               *)
(***************************************************************************)
XLOG_SEG_SIZE == 16777216
SizeOfXLogShortPHD == 24

InvalidXLogRecPtr == <<0, 0>>
XLogRecPtrIsInvalid(lsn) == lsn = InvalidXLogRecPtr
XRecOffIsValid(lsn) == lsn[2] % XLOG_BLCKSZ >= SizeOfXLogShortPHD

\* the order of two XLogRecPtr, both uint64
LsnLess(l, r) == l[1] < r[1] \/ (l[1] = r[1] /\ l[2] < r[2])

\* GetXLogSegNo(lsn, segno, seg_size): segno = lsn / seg_size, for a
\* seg_size that divides 2^32
GetXLogSegNo(lsn, seg_size) ==
    lsn[1] * ((1073741824 \div seg_size) * 4) + lsn[2] \div seg_size

\* a WAL segment file (suffix "": none), a timeline history file
WalFile(tli, log, seg, suffix) ==
    [kind |-> "wal", tli |-> tli, log |-> log, seg |-> seg, suffix |-> suffix]
HistoryFile(tli, parent_tli, switchpoint) ==
    [kind |-> "history", tli |-> tli, parent_tli |-> parent_tli,
     switchpoint |-> switchpoint]

\* catalog.c:30-42
timelineInfoNew(tli) ==
    [tli |-> tli, parent_tli |-> 0, parent_link |-> 0,
     switchpoint |-> InvalidXLogRecPtr,
     begin_segno |-> 0, end_segno |-> 0, n_xlog_files |-> 0,
     backups |-> <<>>, oldest_backup |-> 0, closest_backup |-> 0,
     anchor_lsn |-> InvalidXLogRecPtr, anchor_tli |-> 0,
     keep_segments |-> <<>>, lost_segments |-> <<>>, xlog_filelist |-> <<>>]

xlogFile(segno, type) == [segno |-> segno, type |-> type, keep |-> FALSE]

\* an interval of keep_segments.  The fields backup and branch are not in
\* the code: they record what appended the interval, the backup (its
\* start_time) or the walk from a timeline (its tli).
xlogInterval(begin_segno, end_segno, backup, branch) ==
    [begin_segno |-> begin_segno, end_segno |-> end_segno,
     backup |-> backup, branch |-> branch]

\* catalog.c:740-744 (and 760-764, 784-788, 844-847)
\* if (!tlinfo || tlinfo->tli != tli): a new timelineInfo is appended.
\* st.tlinfo is the place of the current timeline.
IsNewTimeline(st, tli) ==
    st.tlinfo = 0 \/ st.timelineinfos[st.tlinfo].tli # tli
WithTimeline(st, tli) ==
    IF IsNewTimeline(st, tli)
    THEN [timelineinfos |-> Append(st.timelineinfos, timelineInfoNew(tli)),
          tlinfo |-> Len(st.timelineinfos) + 1]
    ELSE st

AppendFile(st, wal_file) ==
    [st EXCEPT !.timelineinfos[st.tlinfo].xlog_filelist = Append(@, wal_file)]

ScanSegmentCompanionIsGap(st, tli, segno) ==
    LET at == WithTimeline(st, tli)
        old == at.timelineinfos[at.tlinfo]
        expected_segno == old.end_segno + 1
        lost == IF /\ ~IsNewTimeline(st, tli)
                   /\ old.n_xlog_files # 0
                   /\ segno # expected_segno
                THEN Append(old.lost_segments,
                            [begin_segno |-> expected_segno,
                             end_segno |-> segno - 1])
                ELSE old.lost_segments
        new == [old EXCEPT
                  !.lost_segments = lost,
                  !.begin_segno = IF @ = 0 THEN segno ELSE @,
                  !.end_segno = segno,
                  !.n_xlog_files = @ + 1,
                  !.xlog_filelist = Append(@, xlogFile(segno, "SEGMENT"))]
    IN [at EXCEPT !.timelineinfos[at.tlinfo] = new]

\* catalog.c:783-834  a WAL segment, compressed or not
ScanSegment(st, tli, segno) ==
    LET at == WithTimeline(st, tli)
        old == at.timelineinfos[at.tlinfo]
        expected_segno == old.end_segno + 1
        lost == IF /\ ~IsNewTimeline(st, tli)
                   /\ old.n_xlog_files # 0
                   /\ segno # expected_segno
                   /\ segno # old.end_segno
                THEN Append(old.lost_segments,
                            [begin_segno |-> expected_segno,
                             end_segno |-> segno - 1])
                ELSE old.lost_segments
        new == [old EXCEPT
                  !.lost_segments = lost,
                  !.begin_segno = IF @ = 0 THEN segno ELSE @,
                  !.end_segno = segno,
                  !.n_xlog_files = @ + 1,
                  !.xlog_filelist = Append(@, xlogFile(segno, "SEGMENT"))]
    IN [at EXCEPT !.timelineinfos[at.tlinfo] = new]

\* catalog.c:855-865  find parent timeline to link it with this one
ParentLink(timelineinfos, parent_tli) ==
    FirstOf({i \in 1..Len(timelineinfos) : timelineinfos[i].tli = parent_tli})

\* catalog.c:837-869  a timeline history file
ScanHistory(st, file) ==
    IF ~IsNewTimeline(st, file.tli) THEN st
    ELSE LET at == WithTimeline(st, file.tli)
             linked == [at.timelineinfos[at.tlinfo] EXCEPT
                          !.switchpoint = file.switchpoint,
                          !.parent_tli = file.parent_tli,
                          !.parent_link = ParentLink(at.timelineinfos,
                                                     file.parent_tli)]
         IN [at EXCEPT !.timelineinfos[at.tlinfo] = linked]

\* catalog.c:706-871  one turn of the loop over xlog_files_list
ScanFile(st, file, xlog_seg_size) ==
    IF file.kind = "history" THEN ScanHistory(st, file)
    ELSE LET segno == file.log * xlog_seg_size + file.seg IN
         IF file.suffix = "backup"
         THEN AppendFile(WithTimeline(st, file.tli),
                         xlogFile(segno, "BACKUP_HISTORY_FILE"))
         ELSE IF file.suffix = "partial"
         THEN AppendFile(WithTimeline(st, file.tli),
                         xlogFile(segno, "PARTIAL_SEGMENT"))
         ELSE IF file.suffix \notin {"", "gz"} THEN st
         ELSE ScanSegment(st, file.tli, segno)

RECURSIVE ScanFiles(_, _, _, _)
ScanFiles(st, xlog_files_list, i, xlog_seg_size) ==
    IF i > Len(xlog_files_list) THEN st.timelineinfos
    ELSE ScanFiles(ScanFile(st, xlog_files_list[i], xlog_seg_size),
                   xlog_files_list, i + 1, xlog_seg_size)

\* the places of a set, in the order of the list
RECURSIVE SetToSortedSeq(_)
SetToSortedSeq(S) ==
    IF S = {} THEN <<>>
    ELSE LET x == CHOOSE y \in S : \A z \in S : y <= z
         IN <<x>> \o SetToSortedSeq(S \ {x})

\* catalog.c:876-890  the backups of each timeline, in the order of the list
BackupsOfTimelines(timelineinfos, list) ==
    [i \in 1..Len(timelineinfos) |->
        [timelineinfos[i] EXCEPT
            !.backups = SetToSortedSeq({j \in 1..Len(list) :
                                          list[j].tli = timelineinfos[i].tli})]]

\* the backup a loop over the places keeps when it replaces its candidate
\* by each backup that Better says is better: the first of the best
BestOf(places, Better(_, _)) ==
    FirstOf({j \in places : \A k \in places : ~Better(k, j)})

\* catalog.c:1264-1296
get_oldest_backup(tlinfo, list) ==
    BestOf({j \in Range(tlinfo.backups) :
               ~(\/ XLogRecPtrIsInvalid(list[j].start_lsn)
                 \/ ~XRecOffIsValid(list[j].start_lsn))},
           LAMBDA k, j : LsnLess(list[k].start_lsn, list[j].start_lsn))

get_closest_backup_parent_only(timelineinfos, t, list) ==
    LET tlinfo == timelineinfos[t] IN
    IF tlinfo.parent_link = 0 THEN 0
    ELSE BestOf({j \in Range(timelineinfos[tlinfo.parent_link].backups) :
                   /\ ~XLogRecPtrIsInvalid(list[j].stop_lsn)
                   /\ XRecOffIsValid(list[j].stop_lsn)
                   /\ ~LsnLess(tlinfo.switchpoint, list[j].stop_lsn)
                   /\ StatusOkOrDone(list[j])},
                LAMBDA k, j : LsnLess(list[j].stop_lsn, list[k].stop_lsn))

\* catalog.c:1213-1254  get_closest_backup from the timeline at place t on
RECURSIVE get_closest_backup(_, _, _)
get_closest_backup(timelineinfos, t, list) ==
    LET tlinfo == timelineinfos[t] IN
    IF tlinfo.parent_link = 0 THEN 0
    ELSE LET parent_backups == timelineinfos[tlinfo.parent_link].backups
             closest_backup ==
                BestOf({j \in Range(parent_backups) :
                          /\ ~XLogRecPtrIsInvalid(list[j].stop_lsn)
                          /\ XRecOffIsValid(list[j].stop_lsn)
                          /\ ~LsnLess(tlinfo.switchpoint, list[j].stop_lsn)
                          /\ StatusOkOrDone(list[j])},
                       LAMBDA k, j : LsnLess(list[j].stop_lsn, list[k].stop_lsn))
         IN IF closest_backup # 0 THEN closest_backup
            ELSE get_closest_backup(timelineinfos, tlinfo.parent_link, list)

\* catalog.c:893-900
OldestAndClosest(timelineinfos, list) ==
    [i \in 1..Len(timelineinfos) |->
        [timelineinfos[i] EXCEPT
            !.oldest_backup = get_oldest_backup(timelineinfos[i], list),
            !.closest_backup = get_closest_backup(timelineinfos, i, list)]]

CountedBackupsAnyStatus(tlinfo, list) ==
    {j \in 1..Len(tlinfo.backups) :
        LET backup == list[tlinfo.backups[j]] IN
        ~(XLogRecPtrIsInvalid(backup.start_lsn) \/ backup.tli <= 0)}

\* catalog.c:966-994  the places, in tlinfo->backups, of the backups that
\* the search for the anchor counts
CountedBackups(tlinfo, list) ==
    {j \in 1..Len(tlinfo.backups) :
        LET backup == list[tlinfo.backups[j]] IN
        /\ StatusOkOrDone(backup)
        /\ ~(XLogRecPtrIsInvalid(backup.start_lsn) \/ backup.tli <= 0)}

AnchorPlaceOnePastDepth(tlinfo, list, wal_depth) ==
    LET counted == CountedBackups(tlinfo, list) IN
    FirstOf({j \in counted :
                Cardinality({k \in counted : k < j}) = wal_depth})

\* catalog.c:966-994  the place of the anchor backup in tlinfo->backups:
\* the wal_depth-th backup counted, 0 if there are fewer
AnchorPlace(tlinfo, list, wal_depth) ==
    LET counted == CountedBackups(tlinfo, list) IN
    FirstOf({j \in counted :
                Cardinality({k \in counted : k <= j}) = wal_depth})

RECURSIVE WalkParentsOwnSwitchpoint(_, _, _, _, _, _)
WalkParentsOwnSwitchpoint(timelineinfos, t, closest_backup, from, list, xlog_seg_size) ==
    IF timelineinfos[t].parent_link = 0 THEN timelineinfos
    ELSE LET parent == timelineinfos[t].parent_link
             switch_segno == GetXLogSegNo(timelineinfos[parent].switchpoint,
                                          xlog_seg_size)
             branch == timelineinfos[from].tli
         IN IF timelineinfos[parent].tli # list[closest_backup].tli
            THEN WalkParentsOwnSwitchpoint(
                    [timelineinfos EXCEPT ![parent].keep_segments =
                        Append(@, xlogInterval(timelineinfos[parent].begin_segno,
                                               switch_segno, 0, branch))],
                    parent, closest_backup, from, list, xlog_seg_size)
            ELSE [timelineinfos EXCEPT ![parent].keep_segments =
                    Append(@, xlogInterval(
                                 GetXLogSegNo(list[closest_backup].start_lsn,
                                              xlog_seg_size),
                                 switch_segno, 0, branch))]

\* catalog.c:1067-1099  the walk over the parent timelines, from the
\* timeline at place t; the timeline at place from began it
RECURSIVE WalkParents(_, _, _, _, _, _)
WalkParents(timelineinfos, t, closest_backup, from, list, xlog_seg_size) ==
    IF timelineinfos[t].parent_link = 0 THEN timelineinfos
    ELSE LET switch_segno == GetXLogSegNo(timelineinfos[t].switchpoint,
                                          xlog_seg_size)
             parent == timelineinfos[t].parent_link
             branch == timelineinfos[from].tli
         IN IF timelineinfos[parent].tli # list[closest_backup].tli
            THEN WalkParents(
                    [timelineinfos EXCEPT ![parent].keep_segments =
                        Append(@, xlogInterval(timelineinfos[parent].begin_segno,
                                               switch_segno, 0, branch))],
                    parent, closest_backup, from, list, xlog_seg_size)
            ELSE [timelineinfos EXCEPT ![parent].keep_segments =
                    Append(@, xlogInterval(
                                 GetXLogSegNo(list[closest_backup].start_lsn,
                                              xlog_seg_size),
                                 switch_segno, 0, branch))]

\* catalog.c:1016-1101  no anchor found in the timeline itself
AnchorFromClosest(timelineinfos, i, list, xlog_seg_size) ==
    LET closest_backup == timelineinfos[i].closest_backup IN
    IF closest_backup = 0 THEN timelineinfos
    ELSE IF \/ XLogRecPtrIsInvalid(list[closest_backup].start_lsn)
            \/ list[closest_backup].tli <= 0
    THEN timelineinfos
    ELSE WalkParents(
            [timelineinfos EXCEPT
                ![i].anchor_lsn = list[closest_backup].start_lsn,
                ![i].anchor_tli = list[closest_backup].tli],
            i, closest_backup, i, list, xlog_seg_size)

ArchiveIntervalReplicaAsMaster(backup, xlog_seg_size) ==
    xlogInterval(GetXLogSegNo(backup.start_lsn, xlog_seg_size),
                 GetXLogSegNo(backup.stop_lsn, xlog_seg_size),
                 backup.start_time, 0)

\* catalog.c:1128-1141  the interval of an ARCHIVE backup
ArchiveInterval(backup, xlog_seg_size) ==
    xlogInterval(GetXLogSegNo(backup.start_lsn, xlog_seg_size),
                 IF backup.from_replica
                 THEN GetXLogSegNo(backup.stop_lsn, xlog_seg_size) + 1
                 ELSE GetXLogSegNo(backup.stop_lsn, xlog_seg_size),
                 backup.start_time, 0)

\* catalog.c:1104-1147  Iterate over backups left: the loop from place j
\* (counted from 1) of tlinfo->backups
RECURSIVE BackupsLeft(_, _, _, _)
BackupsLeft(tlinfo, j, list, xlog_seg_size) ==
    IF j > Len(tlinfo.backups) THEN tlinfo
    ELSE LET backup == list[tlinfo.backups[j]] IN
         IF \/ backup.stream
            \/ XLogRecPtrIsInvalid(backup.start_lsn) \/ backup.tli <= 0
            \/ ~LsnLess(backup.start_lsn, tlinfo.anchor_lsn)
         THEN BackupsLeft(tlinfo, j + 1, list, xlog_seg_size)
         ELSE BackupsLeft(
                 [tlinfo EXCEPT !.keep_segments =
                     Append(@, ArchiveInterval(backup, xlog_seg_size))],
                 j + 1, list, xlog_seg_size)

\* catalog.c:955-1148  determine anchor_lsn and keep_segments for the
\* timelines from place i on
RECURSIVE AnchorsAndKeepSegments(_, _, _, _, _)
AnchorsAndKeepSegments(timelineinfos, i, list, wal_depth, xlog_seg_size) ==
    IF i > Len(timelineinfos) THEN timelineinfos
    ELSE LET tlinfo == timelineinfos[i]
             anchor == AnchorPlace(tlinfo, list, wal_depth)
             count == IF anchor # 0
                      THEN Cardinality({k \in CountedBackups(tlinfo, list) :
                                           k <= anchor})
                      ELSE Cardinality(CountedBackups(tlinfo, list))
             done ==
                IF anchor = 0
                THEN AnchorFromClosest(timelineinfos, i, list, xlog_seg_size)
                ELSE LET backup == list[tlinfo.backups[anchor]] IN
                     [timelineinfos EXCEPT ![i] =
                        BackupsLeft([tlinfo EXCEPT
                                        !.anchor_lsn = backup.start_lsn,
                                        !.anchor_tli = backup.tli],
                                    count + 1, list, xlog_seg_size)]
         IN AnchorsAndKeepSegments(done, i + 1, list, wal_depth, xlog_seg_size)

KeepFileFromAnchorOnly(tlinfo, wal_file, anchor_segno) ==
    wal_file.segno >= anchor_segno

\* catalog.c:1179-1200  the keep flag of one file
KeepFile(tlinfo, wal_file, anchor_segno) ==
    \/ wal_file.segno >= anchor_segno
    \/ \E j \in 1..Len(tlinfo.keep_segments) :
          /\ wal_file.segno >= tlinfo.keep_segments[j].begin_segno
          /\ wal_file.segno <= tlinfo.keep_segments[j].end_segno

\* catalog.c:1155-1201  protect WAL segments from deletion
ProtectSegments(timelineinfos, xlog_seg_size) ==
    [i \in 1..Len(timelineinfos) |->
        LET tlinfo == timelineinfos[i]
            anchor_segno == GetXLogSegNo(tlinfo.anchor_lsn, xlog_seg_size)
        IN IF XLogRecPtrIsInvalid(tlinfo.anchor_lsn) THEN tlinfo
           ELSE IF tlinfo.anchor_tli > 0 /\ tlinfo.anchor_tli # tlinfo.tli
           THEN tlinfo
           ELSE [tlinfo EXCEPT !.xlog_filelist =
                    [k \in 1..Len(@) |->
                        [@[k] EXCEPT !.keep =
                            KeepFile(tlinfo, tlinfo.xlog_filelist[k],
                                     anchor_segno)]]]]

\* catalog.c:689-1204
catalog_get_timelines(xlog_files_list, list, instance) ==
    LET scanned == ScanFiles([timelineinfos |-> <<>>, tlinfo |-> 0],
                             xlog_files_list, 1, instance.xlog_seg_size)
        timelineinfos == OldestAndClosest(BackupsOfTimelines(scanned, list), list)
    IN IF instance.wal_depth <= 0 THEN timelineinfos
       ELSE ProtectSegments(
               AnchorsAndKeepSegments(timelineinfos, 1, list,
                                      instance.wal_depth, instance.xlog_seg_size),
               instance.xlog_seg_size)

(***************************************************************************)
(* The archives and the backups catalog_get_timelines is given.  Timeline  *)
(* 1 is the first; timeline k > 1 left its parent in segment 2k - 1.  The  *)
(* backup started at t began in segment 2t, on a timeline that existed     *)
(* then.                                                                   *)
(***************************************************************************)
SegLsn(segno, offset) == <<0, segno * XLOG_SEG_SIZE + offset>>
SwitchSegno(tli) == 2 * tli - 1
BackupSegno(t) == 2 * t

\* the WAL files of timeline tli, in the order of their paths: the history
\* file first, then the segments; the segment a backup began in has a
\* backup history file, the last segment is there as .partial too
TimelineFiles(tli, parent_tli) ==
    LET first == IF tli = 1 THEN 1 ELSE SwitchSegno(tli)
        SegmentFiles(seg) ==
            <<WalFile(tli, 0, seg, "")>>
            \o (IF seg = BackupSegno(tli)
                THEN <<WalFile(tli, 0, seg, "backup")>> ELSE <<>>)
            \o (IF seg = MaxSegno
                THEN <<WalFile(tli, 0, seg, "partial")>> ELSE <<>>)
        RECURSIVE From(_)
        From(seg) == IF seg > MaxSegno THEN <<>>
                     ELSE SegmentFiles(seg) \o From(seg + 1)
    IN (IF tli = 1 THEN <<>>
        ELSE <<HistoryFile(tli, parent_tli, SegLsn(SwitchSegno(tli), 0))>>)
       \o From(first)

\* the archive of n timelines; parent[k] is the parent of timeline k
RECURSIVE Archive(_, _)
Archive(n, parent) ==
    IF n = 0 THEN <<>>
    ELSE Archive(n - 1, parent) \o TimelineFiles(n, parent[n])

\* the shapes of the timeline tree
TimelineTrees ==
    {parent \in [1..NTimelines -> 0..NTimelines] :
        /\ parent[1] = 0
        /\ \A k \in 2..NTimelines : parent[k] \in 1..(k - 1)}

\* what the backup started at t may be when there are n timelines: taken
\* from the archive, as a stream or from a replica, finished or failed; a
\* backup that failed before it began has no LSN
TimelineBackups(t, n) ==
    LET Taken(tli, status, stream, from_replica) ==
           [TypicalBackup EXCEPT
               !.start_time = t, !.backup_id = t, !.tli = tli,
               !.status = status, !.stream = stream,
               !.from_replica = from_replica,
               !.start_lsn = SegLsn(BackupSegno(t), 40),
               !.stop_lsn = SegLsn(BackupSegno(t), 312)]
        tlis == {tli \in 1..n : tli <= t}
    IN {Taken(tli, status, FALSE, FALSE) : tli \in tlis, status \in ChainStatuses}
       \cup {Taken(tli, status, TRUE, FALSE) : tli \in tlis, status \in ChainStatuses}
       \cup {Taken(tli, status, FALSE, TRUE) : tli \in tlis, status \in ChainStatuses}
       \cup {[Taken(tli, "BACKUP_STATUS_ERROR", FALSE, FALSE) EXCEPT
                 !.start_lsn = InvalidXLogRecPtr,
                 !.stop_lsn = InvalidXLogRecPtr] : tli \in tlis}

\* the catalogs of the backups started at 1..t: each is there or not
RECURSIVE Catalogs(_, _)
Catalogs(t, n) ==
    IF t = 0 THEN {{}}
    ELSE {catalog \cup backup :
             catalog \in Catalogs(t - 1, n),
             backup \in {{}} \cup {{b} : b \in TimelineBackups(t, n)}}

NoTimelines == <<>>
NoInstance == [wal_depth |-> 0, xlog_seg_size |-> XLOG_SEG_SIZE]

\* catalog.c:689-1204  the call
CatalogGetTimelines(wal_depth) ==
    /\ tl_ret = "none"
    /\ instance_config' = [wal_depth |-> wal_depth, xlog_seg_size |-> XLOG_SEG_SIZE]
    /\ timelines' = catalog_get_timelines(arclog_files, catalog_backups,
                                              instance_config')
    /\ tl_ret' = "OK"
    /\ UNCHANGED <<arclog_files, catalog_backups, notTl>>

\* the caller is done with the timelines
FreeTimelines ==
    /\ tl_ret = "OK"
    /\ tl_ret' = "none"
    /\ timelines' = NoTimelines
    /\ instance_config' = NoInstance
    /\ UNCHANGED <<arclog_files, catalog_backups, notTl>>

\* no archive, no backups, no call
TlIdle ==
    /\ arclog_files = <<>>
    /\ catalog_backups = <<>>
    /\ instance_config = NoInstance
    /\ timelines = NoTimelines
    /\ tl_ret = "none"

(***************************************************************************)
(* write_backup_filelist.  A line is what sprintf makes of the fields of a *)
(* pgFile; its length, as the window of buf, is counted in units of one    *)
(* short line.  BufferWindow is BUFFERSZ in that unit.                     *)
(***************************************************************************)

\* what a pgFile may be: a directory, a data file that was copied, a WAL
\* file of pg_wal that was copied; its path is its place in the list, its
\* line is len units long
FileKinds == {"dir", "data", "wal"}
pgFile(path, kind, len) ==
    [path |-> path, kind |-> kind, len |-> len,
     write_size |-> IF kind = "dir" THEN 0 ELSE BLCKSZ,
     uncompressed_size |-> IF kind = "dir" THEN 0 ELSE 2 * BLCKSZ]

RECURSIVE FileLists(_)
FileLists(n) ==
    IF n = 0 THEN {<<>>}
    ELSE FileLists(n - 1)
         \cup {Append(files, pgFile(n, kind, len)) :
                  files \in {f \in FileLists(n - 1) : Len(f) = n - 1},
                  kind \in FileKinds, len \in 1..MaxLineLen}

\* catalog.c:1486-1508  the line of a file
FilelistLine(file) ==
    [path |-> file.path, size |-> file.write_size, len |-> file.len]

\* catalog.c:1456-1476  the sizes counted for a file
CountSizes(sizes, file) ==
    IF file.kind = "dir"
    THEN [sizes EXCEPT !.backup_size_on_disk = @ + 4096,
                       !.uncompressed_size_on_disk = @ + 4096]
    ELSE IF file.write_size <= 0 THEN sizes
    ELSE IF file.kind = "wal"
    THEN [sizes EXCEPT !.wal_size_on_disk = @ + file.write_size]
    ELSE [sizes EXCEPT !.backup_size_on_disk = @ + file.write_size,
                       !.uncompressed_size_on_disk = @ + file.uncompressed_size]

NoSizes == [backup_size_on_disk |-> 0, uncompressed_size_on_disk |-> 0,
            wal_size_on_disk |-> 0]
NoBytes == [data_bytes |-> BYTES_INVALID, wal_bytes |-> BYTES_INVALID,
            uncompressed_bytes |-> BYTES_INVALID]

\* catalog.c:1438-1444  the call: the temporary file is opened for writing
WriteBackupFilelist ==
    /\ fl_pc = "idle"
    /\ fl_pc' = "print"
    /\ fl_temp' = [exists |-> TRUE, lines |-> <<>>]
    /\ fl_i' = 0
    /\ fl_buf' = <<>>
    /\ fl_write_len' = 0
    /\ fl_sizes' = NoSizes
    /\ UNCHANGED <<fl_files, fl_backup, fl_list, notFl>>

\* catalog.c:1447-1528  one turn of the loop: the line goes to buf if it
\* fits; if not, buf is written to the file and write_len is reset
PrintFile ==
    /\ fl_pc = "print"
    /\ fl_i < Len(fl_files)
    /\ LET file == fl_files[fl_i + 1]
           line == FilelistLine(file)
       IN /\ fl_i' = fl_i + 1
          /\ fl_sizes' = CountSizes(fl_sizes, file)
          /\ IF fl_write_len + line.len <= BufferWindow
             THEN /\ fl_buf' = Append(fl_buf, line)
                  /\ fl_write_len' = fl_write_len + line.len
                  /\ UNCHANGED fl_temp
             ELSE /\ fl_temp' = [fl_temp EXCEPT !.lines = @ \o fl_buf]
                  /\ fl_buf' = <<>>
                  /\ fl_write_len' = 0
    /\ UNCHANGED <<fl_pc, fl_files, fl_backup, fl_list, notFl>>

\* catalog.c:1518-1524  fio_fwrite of the full buf fails
PrintFileFails ==
    /\ fl_pc = "print"
    /\ fl_i < Len(fl_files)
    /\ LET file == fl_files[fl_i + 1] IN
          /\ fl_write_len + FilelistLine(file).len > BufferWindow
          /\ fl_i' = fl_i + 1
          /\ fl_sizes' = CountSizes(fl_sizes, file)
    /\ fl_temp' = NoFile
    /\ fl_pc' = "ERROR"
    /\ UNCHANGED <<fl_files, fl_buf, fl_write_len, fl_backup, fl_list, notFl>>

\* catalog.c:1530-1559  after the loop: what is left in buf is written, the
\* file is closed and renamed, the sizes go to the backup
FinishFilelist ==
    /\ fl_pc = "print"
    /\ fl_i >= Len(fl_files)
    /\ fl_list' = [exists |-> TRUE,
                   lines |-> IF fl_write_len > 0 THEN fl_temp.lines \o fl_buf
                             ELSE fl_temp.lines]
    /\ fl_temp' = NoFile
    /\ fl_backup' = [data_bytes |-> fl_sizes.backup_size_on_disk,
                     wal_bytes |-> fl_sizes.wal_size_on_disk,
                     uncompressed_bytes |-> fl_sizes.uncompressed_size_on_disk]
    /\ fl_pc' = "OK"
    /\ UNCHANGED <<fl_files, fl_i, fl_buf, fl_write_len, fl_sizes, notFl>>

\* catalog.c:1532-1554  fio_fwrite, fio_fflush, fio_fclose or fio_rename
\* fails: the temporary file is unlinked
FinishFilelistFails ==
    /\ fl_pc = "print"
    /\ fl_i >= Len(fl_files)
    /\ fl_temp' = NoFile
    /\ fl_pc' = "ERROR"
    /\ UNCHANGED <<fl_files, fl_i, fl_buf, fl_write_len, fl_sizes, fl_backup,
                   fl_list, notFl>>

\* nobody writes a file list
FilelistIdle ==
    /\ fl_pc = "idle"
    /\ fl_files = <<>>
    /\ fl_i = 0
    /\ fl_buf = <<>>
    /\ fl_write_len = 0
    /\ fl_sizes = NoSizes
    /\ fl_backup = NoBytes
    /\ fl_temp = NoFile
    /\ fl_list = NoFile

(***************************************************************************)
(* catalog_lock_backup_list: the caller of lock_backup that locks a range  *)
(* of a backup list.  Indexes are those of the parray, from 0.             *)
(***************************************************************************)
\* the backup lists a caller may pass: no backup twice
RECURSIVE BackupLists(_)
BackupLists(n) ==
    IF n = 0 THEN {<<>>}
    ELSE BackupLists(n - 1) \cup
         {list \in {Append(shorter, b) :
                        shorter \in BackupLists(n - 1), b \in Backups} :
             \A i, j \in 1 .. Len(list) : list[i] = list[j] => i = j}

\* parray_get(list, i)
parray_get(list, i) == list[i + 1]

Max(a, b) == IF a > b THEN a ELSE b
Min(a, b) == IF a < b THEN a ELSE b

\* the call: nothing to do for an empty list, else the bounds of the loop
CatalogLockBackupList(p, list, from_idx, to_idx) ==
    /\ ll_pc[p] = "idle"
    /\ pc[p] = "idle"
    /\ ll_list' = [ll_list EXCEPT ![p] = list]
    /\ ll_range' = [ll_range EXCEPT ![p] = <<from_idx, to_idx>>]
    /\ ll_tried' = [ll_tried EXCEPT ![p] = <<>>]
    /\ IF Len(list) = 0
       THEN /\ ll_pc' = [ll_pc EXCEPT ![p] = "returned"]
            /\ UNCHANGED <<ll_i, ll_end>>
       ELSE /\ ll_i' = [ll_i EXCEPT ![p] = Max(from_idx, to_idx)]
            /\ ll_end' = [ll_end EXCEPT ![p] = Min(from_idx, to_idx)]
            /\ ll_pc' = [ll_pc EXCEPT ![p] = "loop"]
    /\ UNCHANGED <<lockVars, notLockList>>

CallCatalogLockBackupList(p) ==
    \E list \in BackupLists(NBackups) :
       \/ Len(list) = 0 /\ CatalogLockBackupList(p, list, 0, 0)
       \/ \E from_idx, to_idx \in 0 .. Len(list) - 1 :
             CatalogLockBackupList(p, list, from_idx, to_idx)

\* one turn of the loop: lock_backup is called for the element at i
LockListCall(p) ==
    /\ ll_pc[p] = "loop"
    /\ ll_i[p] >= ll_end[p]
    /\ pc[p] = "idle"
    /\ pc' = [pc EXCEPT ![p] = "create"]
    /\ cur' = [cur EXCEPT ![p] = parray_get(ll_list[p], ll_i[p])]
    /\ ntries' = [ntries EXCEPT ![p] = 0]
    /\ ret' = [ret EXCEPT ![p] = "none"]
    /\ calls' = [calls EXCEPT ![p] = @ + 1]
    /\ encoded_pid' = [encoded_pid EXCEPT ![p] = 0]
    /\ ll_pc' = [ll_pc EXCEPT ![p] = "locking"]
    /\ ll_tried' = [ll_tried EXCEPT ![p] = Append(@, ll_i[p])]
    /\ UNCHANGED <<lock_dirent, lock_inode, fd, exit_hook_registered,
                   atexit_hooks, lock_files, hook_i, acquired, fatal>>
    /\ UNCHANGED <<ll_list, ll_range, ll_i, ll_end, notLockList>>

\* lock_backup has returned: false is a fatal error, true goes on with i - 1
LockListReturn(p) ==
    /\ ll_pc[p] = "locking"
    /\ pc[p] = "idle"
    /\ IF ret[p] = "false"
       THEN /\ fatal' = [fatal EXCEPT ![p] = TRUE]
            /\ pc' = [pc EXCEPT ![p] = ExitPc(p)]
            /\ ll_pc' = [ll_pc EXCEPT ![p] = "ERROR"]
            /\ UNCHANGED ll_i
       ELSE /\ ll_i' = [ll_i EXCEPT ![p] = @ - 1]
            /\ ll_pc' = [ll_pc EXCEPT ![p] = "loop"]
            /\ UNCHANGED <<fatal, pc>>
    /\ UNCHANGED <<lock_dirent, lock_inode, cur, ntries, fd, encoded_pid,
                   exit_hook_registered, atexit_hooks, lock_files, hook_i,
                   ret, acquired, calls>>
    /\ UNCHANGED <<ll_list, ll_range, ll_end, ll_tried, notLockList>>

\* the loop is over: catalog_lock_backup_list returns
LockListDone(p) ==
    /\ ll_pc[p] = "loop"
    /\ ll_i[p] < ll_end[p]
    /\ ll_pc' = [ll_pc EXCEPT ![p] = "returned"]
    /\ UNCHANGED <<ll_list, ll_range, ll_i, ll_end, ll_tried, lockVars,
                   notLockList>>

\* a step of the process inside lock_backup, or its exit after the caller
\* has returned
LockListStep(p) ==
    /\ pc[p] = "idle" => ll_pc[p] = "returned"
    /\ LockStep(p)

\* nobody locks a backup list
LockListIdle ==
    /\ ll_pc = [p \in Procs |-> "idle"]
    /\ ll_list = [p \in Procs |-> <<>>]
    /\ ll_range = [p \in Procs |-> <<0, 0>>]
    /\ ll_i = [p \in Procs |-> 0]
    /\ ll_end = [p \in Procs |-> 0]
    /\ ll_tried = [p \in Procs |-> <<>>]

(***************************************************************************)
(* write_backup_status: the control file of the backup is read again and   *)
(* written back with the new status.  A backup directory is named by the   *)
(* start_time its name encodes.                                            *)
(***************************************************************************)
\* the backup directories of the instance
StatusDirs == {1, TypicalBackup.start_time}

\* catalog.c:72-83  read_backup(instance_name, timestamp)
read_backup(files, timestamp) ==
    IF timestamp \in DOMAIN files
    THEN readBackupControlFile(files[timestamp].exists, files[timestamp].lines)
    ELSE NullBackup

\* catalog.c:1384-1417  write_backup(backup), every call of it succeeding:
\* the path is that of the directory of backup->start_time
write_backup(files, backup) ==
    [files EXCEPT ![backup.start_time] = Version(backup)]

write_backup_of_caller(files, tmp, backup, status) ==
    write_backup(files, [backup EXCEPT !.status = status])

\* catalog.c:91-112
write_backup_reread(files, tmp, backup, status) ==
    write_backup(files, [tmp EXCEPT !.status = status])

\* catalog.c:91-112  write_backup_status(backup, status, instance_name); a
\* fatal error of readBackupControlFile ends the process
WriteBackupStatus(status) ==
    /\ ws_pc = "idle"
    /\ LET tmp == read_backup(ws_files, ws_backup.start_time) IN
       IF tmp.rc = "NULL"
       THEN /\ ws_pc' = "returned"
            /\ UNCHANGED <<ws_files, ws_backup>>
       ELSE IF tmp.rc = "ERROR" \/ tmp.backup.start_time \notin StatusDirs
       THEN /\ ws_pc' = "ERROR"
            /\ UNCHANGED <<ws_files, ws_backup>>
       ELSE /\ ws_backup' = [ws_backup EXCEPT !.status = status]
            /\ ws_files' =
                  write_backup_reread(ws_files, tmp.backup, ws_backup, status)
            /\ ws_pc' = "returned"
    /\ UNCHANGED notWs

\* catalog.c:109, 1395-1416  write_backup ends in elog(ERROR): the status
\* of the caller's backup is set, the control file is as it was
WriteBackupStatusFails(status) ==
    /\ ws_pc = "idle"
    /\ read_backup(ws_files, ws_backup.start_time).rc = "OK"
    /\ ws_backup' = [ws_backup EXCEPT !.status = status]
    /\ ws_pc' = "ERROR"
    /\ UNCHANGED <<ws_files, notWs>>

\* nobody changes the status of a backup
StatusIdle ==
    /\ ws_pc = "idle"
    /\ ws_files = [t \in StatusDirs |-> NoFile]
    /\ ws_backup = TypicalBackup

(***************************************************************************)
(* Initial states.  A lockfile found at start was left by an earlier       *)
(* process: it holds the PID that process wrote.                           *)
(***************************************************************************)
\* nothing written or read yet
CodecIdle ==
    /\ c_pc = "start"
    /\ c_file = <<>>
    /\ c_read = NullBackup
    /\ c_backup = TypicalBackup

\* nobody writes or reads a control file
CtlProcsIdle ==
    /\ w_pc = "idle"
    /\ w_backup = RunningBackup
    /\ w_fp = NoIno
    /\ w_n = 0
    /\ w_prev = NoFile
    /\ r_pc = [r \in Readers |-> "idle"]
    /\ r_fd = [r \in Readers |-> NoIno]
    /\ r_seen = [r \in Readers |-> NoFile]
    /\ r_ok = [r \in Readers |-> {}]
    /\ r_ret = [r \in Readers |-> NullBackup]

CtlIdle ==
    /\ CtlProcsIdle
    /\ ctl_dirent = [n \in CtlNames |-> NoIno]
    /\ ctl_inode = [i \in CtlInos |-> <<>>]

\* an empty instance directory, nobody lists it
ListIdle ==
    /\ instance_dir = [n \in DirNames |-> NoEntry]
    /\ requested_backup_id = INVALID_BACKUP_ID
    /\ backups = <<>>
    /\ list_ret = "none"

InitProcs ==
    /\ pc = [p \in Procs |-> "idle"]
    /\ cur = [p \in Procs |-> 1]
    /\ ntries = [p \in Procs |-> 0]
    /\ fd = [p \in Procs |-> NoIno]
    /\ encoded_pid = [p \in Procs |-> 0]
    /\ exit_hook_registered = [p \in Procs |-> FALSE]
    /\ atexit_hooks = [p \in Procs |-> 0]
    /\ lock_files = [p \in Procs |-> <<>>]
    /\ hook_i = [p \in Procs |-> 0]
    /\ ret = [p \in Procs |-> "none"]
    /\ acquired = [p \in Procs |-> {}]
    /\ calls = [p \in Procs |-> 0]
    /\ fatal = [p \in Procs |-> FALSE]

InitLockFiles(contents) ==
    \E found \in [Backups -> contents \cup {<<-1>>}] :
       /\ lock_dirent = [b \in Backups |-> IF found[b] = <<-1>> THEN NoIno ELSE b]
       /\ lock_inode = [i \in LockInos |->
                          IF i \in Backups /\ found[i] # <<-1>> THEN found[i]
                          ELSE <<>>]

\* processes compete; a lockfile found at start belongs to a dead process or
\* to a live process outside the model
Init ==
    /\ InitProcs
    /\ InitLockFiles({<<DeadPid>>, <<LivePid>>})
    /\ CodecIdle
    /\ CtlIdle
    /\ ListIdle
    /\ ChainIdle
    /\ TlIdle
    /\ FilelistIdle
    /\ LockListIdle
    /\ StatusIdle

\* competing processes ask for the lock of a backup they do not hold
FirstLockBackup(p, b) == b \notin acquired[p] /\ LockBackup(p, b)

Next ==
    \E p \in Procs :
       \/ \E b \in Backups : FirstLockBackup(p, b)
       \/ LockStep(p)

Spec == Init /\ [][Next]_vars

\* one process alone; the lockfile found at start holds any PID, is empty,
\* or holds text atoi() turns into 0
InitSolo ==
    /\ InitProcs
    /\ InitLockFiles({<<DeadPid>>, <<LivePid>>, <<RootPid>>, <<Pid(1)>>,
                      <<PPid(1)>>, <<GPPid(1)>>, <<0>>, <<>>})
    /\ CodecIdle
    /\ CtlIdle
    /\ ListIdle
    /\ ChainIdle
    /\ TlIdle
    /\ FilelistIdle
    /\ LockListIdle
    /\ StatusIdle

\* the process alone may also ask again for a lock it already has
NextSolo ==
    \E p \in SoloProcs :
       \/ \E b \in Backups : LockBackup(p, b)
       \/ LockStep(p)

SpecSolo == InitSolo /\ [][NextSolo]_vars

\* what processes outside the model do to the lockfile of a backup while a
\* call runs: one of them takes the lock (and lives, or has died since), or
\* removes the lockfile it finds
PeerCreatesLock(b, content) ==
    /\ lock_dirent[b] = NoIno
    /\ LET i == NewIno(lock_dirent, fd) IN
       /\ lock_dirent' = [lock_dirent EXCEPT ![b] = i]
       /\ lock_inode' = [lock_inode EXCEPT ![i] = content]
    /\ UNCHANGED <<pc, cur, ntries, fd, encoded_pid, exit_hook_registered,
                   atexit_hooks, lock_files, hook_i, ret, acquired, calls,
                   fatal>>
    /\ UNCHANGED notLock

PeerUnlinksLock(b) ==
    /\ lock_dirent[b] # NoIno
    /\ LET dirent == [lock_dirent EXCEPT ![b] = NoIno] IN
       /\ lock_dirent' = dirent
       /\ lock_inode' = Reclaim(dirent, fd, lock_inode)
    /\ UNCHANGED <<pc, cur, ntries, fd, encoded_pid, exit_hook_registered,
                   atexit_hooks, lock_files, hook_i, ret, acquired, calls,
                   fatal>>
    /\ UNCHANGED notLock

\* one process asks for the lock of the first backup against such peers;
\* no other lockfile is there
PeerStep ==
    \/ \E content \in {<<DeadPid>>, <<LivePid>>} : PeerCreatesLock(1, content)
    \/ PeerUnlinksLock(1)

InitRace == Init /\ \A b \in Backups \ {1} : lock_dirent[b] = NoIno

NextRace ==
    \/ \E p \in SoloProcs : LockBackup(p, 1) \/ LockStep(p)
    \/ PeerStep

SpecRace == InitRace /\ [][NextRace]_vars

\* a process that is in lock_backup goes on with it
SpecRaceFair == SpecRace /\ \A p \in SoloProcs : WF_vars(LockStep(p))

\* processes that lock ranges of backup lists beside each other
NextLockList ==
    \E p \in Procs :
       \/ CallCatalogLockBackupList(p)
       \/ LockListCall(p)
       \/ LockListReturn(p)
       \/ LockListDone(p)
       \/ LockListStep(p)

SpecLockList == Init /\ [][NextLockList]_vars

\* no process asks for a lock and no lockfile exists
LockIdle ==
    /\ InitProcs
    /\ lock_dirent = [b \in Backups |-> NoIno]
    /\ lock_inode = [i \in LockInos |-> <<>>]

\* one backup after the other is written and read back
InitCodec ==
    /\ LockIdle
    /\ c_pc = "start"
    /\ c_file = <<>>
    /\ c_read = NullBackup
    /\ c_backup \in Records
    /\ CtlIdle
    /\ ListIdle
    /\ ChainIdle
    /\ TlIdle
    /\ FilelistIdle
    /\ LockListIdle
    /\ StatusIdle

NextCodec == CodecWrite \/ CodecRead \/ CodecAgain

SpecCodec == InitCodec /\ [][NextCodec]_vars

\* a backup directory whose backup.control is not written yet, or was
\* written by an earlier write_backup
InitCtl ==
    /\ LockIdle
    /\ CodecIdle
    /\ ListIdle
    /\ ChainIdle
    /\ TlIdle
    /\ FilelistIdle
    /\ LockListIdle
    /\ StatusIdle
    /\ CtlProcsIdle
    /\ \/ /\ ctl_dirent = [n \in CtlNames |-> NoIno]
          /\ ctl_inode = [i \in CtlInos |-> <<>>]
       \/ \E backup \in CtlRecords :
             /\ ctl_dirent = [n \in CtlNames |->
                                 IF n = BACKUP_CONTROL_FILE THEN 1 ELSE NoIno]
             /\ ctl_inode = [i \in CtlInos |->
                                IF i = 1 THEN pgBackupWriteControl(backup)
                                ELSE <<>>]

NextCtl ==
    \/ \E backup \in CtlRecords : WriteBackup(backup)
    \/ OpenTemp
    \/ OpenTempFails
    \/ WriteLine
    \/ FlushClose
    \/ FlushCloseFails
    \/ RenameTemp
    \/ RenameTempFails
    \/ WriterKilled
    \/ \E r \in Readers :
          \/ ReadBackup(r)
          \/ AccessControl(r)
          \/ OpenControl(r)
          \/ ReadControlLine(r)

SpecCtl == InitCtl /\ [][NextCtl]_vars

InitList ==
    /\ LockIdle
    /\ CodecIdle
    /\ CtlIdle
    /\ ListIdle
    /\ ChainIdle
    /\ TlIdle
    /\ FilelistIdle
    /\ LockListIdle
    /\ StatusIdle

NextList ==
    \/ \E id \in 0..MaxStartTime : catalog_get_backup_list(id)
    \/ \E id \in 0..MaxStartTime : catalog_get_backup_list_fails(id)
    \/ FreeBackupList
    \/ \E name \in DirNames : \E entry \in Entries(name) : ChangeEntry(name, entry)

SpecList == InitList /\ [][NextList]_vars

\* a list of up to NChain backups, and the calls made with it
InitChain ==
    /\ LockIdle
    /\ CodecIdle
    /\ CtlIdle
    /\ ListIdle
    /\ TlIdle
    /\ FilelistIdle
    /\ LockListIdle
    /\ StatusIdle
    /\ \E present \in SUBSET (1..NChain) :
          \E choice \in [present -> UNION {ChainBackups(t) : t \in 1..NChain}] :
             /\ \A t \in present : choice[t] \in ChainBackups(t)
             /\ backup_list = ChainList({choice[t] : t \in present})
    /\ chain_call = NoCall

CallScanParentChain ==
    \E current_backup \in 1..Len(backup_list) : ScanParentChain(current_backup)
CallIsParent ==
    \E parent_backup_time \in 1..NChain, child_backup \in 1..Len(backup_list),
       inclusive \in BOOLEAN :
          IsParent(parent_backup_time, child_backup, inclusive)
CallGetLastDataBackup ==
    \E tli \in ChainTlis, current_start_time \in 0..NChain :
          GetLastDataBackup(tli, current_start_time)

NextChain ==
    CallScanParentChain \/ CallIsParent \/ CallGetLastDataBackup \/ ChainReturn

SpecChain == InitChain /\ [][NextChain]_vars

\* an archive of two or more timelines and a catalog of up to NTlBackups
\* backups
InitTimelines ==
    /\ LockIdle
    /\ CodecIdle
    /\ CtlIdle
    /\ ListIdle
    /\ ChainIdle
    /\ FilelistIdle
    /\ LockListIdle
    /\ StatusIdle
    /\ \E n \in 2..NTimelines, parent \in TimelineTrees :
          /\ \A k \in (n + 1)..NTimelines : parent[k] = 1
          /\ arclog_files = Archive(n, parent)
          /\ \E catalog \in Catalogs(NTlBackups, n) :
                catalog_backups = ChainList(catalog)
    /\ instance_config = NoInstance
    /\ timelines = NoTimelines
    /\ tl_ret = "none"

CallCatalogGetTimelines ==
    \E wal_depth \in 0..MaxWalDepth : CatalogGetTimelines(wal_depth)

NextTimelines == CallCatalogGetTimelines \/ FreeTimelines

SpecTimelines == InitTimelines /\ [][NextTimelines]_vars

(***************************************************************************)
(* Archives that lost files.  The archive of one timeline begins at a      *)
(* later segment than the timeline does (the segments before it were       *)
(* purged; none is left when it begins past MaxSegno), one of its segments *)
(* may be missing, and one may be compressed, or there both compressed and *)
(* not.                                                                    *)
(* A file name with suffix sorts after the name without: the segment, its  *)
(* backup history file, its .gz, its .partial.                             *)
(***************************************************************************)
DamagedTimelineFiles(tli, parent_tli, from, missing, compressed, kind) ==
    LET first == IF tli = 1 THEN 1 ELSE SwitchSegno(tli)
        KindOf(seg) == IF seg < from \/ seg = missing THEN "none"
                       ELSE IF seg = compressed THEN kind ELSE "plain"
        SegmentFiles(seg) ==
            (IF KindOf(seg) \in {"plain", "both"}
             THEN <<WalFile(tli, 0, seg, "")>> ELSE <<>>)
            \o (IF seg = BackupSegno(tli)
                THEN <<WalFile(tli, 0, seg, "backup")>> ELSE <<>>)
            \o (IF KindOf(seg) \in {"gz", "both"}
                THEN <<WalFile(tli, 0, seg, "gz")>> ELSE <<>>)
            \o (IF seg = MaxSegno
                THEN <<WalFile(tli, 0, seg, "partial")>> ELSE <<>>)
        RECURSIVE From(_)
        From(seg) == IF seg > MaxSegno THEN <<>>
                     ELSE SegmentFiles(seg) \o From(seg + 1)
    IN (IF tli = 1 THEN <<>>
        ELSE <<HistoryFile(tli, parent_tli, SegLsn(SwitchSegno(tli), 0))>>)
       \o From(first)

\* the archive of n timelines of which timeline d lost files
RECURSIVE DamagedArchive(_, _, _, _, _, _, _)
DamagedArchive(n, parent, d, from, missing, compressed, kind) ==
    IF n = 0 THEN <<>>
    ELSE DamagedArchive(n - 1, parent, d, from, missing, compressed, kind)
         \o (IF n = d
             THEN DamagedTimelineFiles(n, parent[n], from, missing,
                                       compressed, kind)
             ELSE TimelineFiles(n, parent[n]))

DamagedArchives(n, parent) ==
    {DamagedArchive(n, parent, d, from, missing, compressed, kind) :
        d \in 1..n, from \in 1..(MaxSegno + 1), missing \in 0..MaxSegno,
        compressed \in 0..MaxSegno, kind \in {"gz", "both"}}

\* the catalogs that go with them: the backup started at 1 is on timeline
\* 1, finished, or failed after it began, with no stop_lsn; the backup
\* started at 2 is finished, on one of the first two timelines
DamagedCatalogs(n) ==
    LET Taken(t, tli) ==
           [TypicalBackup EXCEPT
               !.start_time = t, !.backup_id = t, !.tli = tli,
               !.status = "BACKUP_STATUS_OK", !.stream = FALSE,
               !.start_lsn = SegLsn(BackupSegno(t), 40),
               !.stop_lsn = SegLsn(BackupSegno(t), 312)]
        Failed(t, tli) ==
           [Taken(t, tli) EXCEPT !.status = "BACKUP_STATUS_ERROR",
                                 !.stop_lsn = InvalidXLogRecPtr]
    IN {first \cup second :
           first \in {{}, {Taken(1, 1)}, {Failed(1, 1)}},
           second \in {{}} \cup {{Taken(2, tli)} : tli \in {1, 2} \cap 1..n}}

InitArchive ==
    /\ LockIdle
    /\ CodecIdle
    /\ CtlIdle
    /\ ListIdle
    /\ ChainIdle
    /\ FilelistIdle
    /\ LockListIdle
    /\ StatusIdle
    /\ \E n \in 1..NTimelines, parent \in TimelineTrees :
          /\ \A k \in (n + 1)..NTimelines : parent[k] = 1
          /\ arclog_files \in DamagedArchives(n, parent)
          /\ \E catalog \in DamagedCatalogs(n) :
                catalog_backups = ChainList(catalog)
    /\ instance_config = NoInstance
    /\ timelines = NoTimelines
    /\ tl_ret = "none"

SpecArchive == InitArchive /\ [][NextTimelines]_vars

InitFilelist ==
    /\ LockIdle
    /\ CodecIdle
    /\ CtlIdle
    /\ ListIdle
    /\ ChainIdle
    /\ TlIdle
    /\ LockListIdle
    /\ StatusIdle
    /\ fl_pc = "idle"
    /\ fl_files \in FileLists(NFiles)
    /\ fl_i = 0
    /\ fl_buf = <<>>
    /\ fl_write_len = 0
    /\ fl_sizes = NoSizes
    /\ fl_backup = NoBytes
    /\ fl_temp = NoFile
    /\ fl_list = NoFile

NextFilelist ==
    \/ WriteBackupFilelist
    \/ PrintFile
    \/ PrintFileFails
    \/ FinishFilelist
    \/ FinishFilelistFails

SpecFilelist == InitFilelist /\ [][NextFilelist]_vars

\* the statuses a caller sets
BackupStatuses ==
    {"BACKUP_STATUS_INVALID", "BACKUP_STATUS_OK", "BACKUP_STATUS_ERROR",
     "BACKUP_STATUS_RUNNING", "BACKUP_STATUS_MERGING",
     "BACKUP_STATUS_DELETING", "BACKUP_STATUS_DELETED", "BACKUP_STATUS_DONE",
     "BACKUP_STATUS_ORPHAN", "BACKUP_STATUS_CORRUPT"}

\* what the caller holds in memory: the backup as it was read when the
\* command started, as the command has changed it since, a backup whose
\* directory has no control file, one without a directory
CallerBackups ==
    {TypicalBackup,
     [TypicalBackup EXCEPT !.status = "BACKUP_STATUS_RUNNING",
                           !.data_bytes = 1, !.end_time = 0,
                           !.stop_lsn = <<0, 0>>],
     [TypicalBackup EXCEPT !.start_time = 1],
     [TypicalBackup EXCEPT !.start_time = 86400]}

\* every control file was written by write_backup into the directory of its
\* start_time, or is missing
InitStatus ==
    /\ LockIdle
    /\ CodecIdle
    /\ CtlIdle
    /\ ListIdle
    /\ ChainIdle
    /\ TlIdle
    /\ FilelistIdle
    /\ LockListIdle
    /\ ws_pc = "idle"
    /\ \E r \in {NoFile} \cup {Version(b) : b \in {x \in Records :
                                  x.start_time = TypicalBackup.start_time}},
          q \in {NoFile} \cup {Version(b) : b \in {x \in Records :
                                  x.start_time = 1}} :
          ws_files = [t \in StatusDirs |->
                         IF t = TypicalBackup.start_time THEN r ELSE q]
    /\ ws_backup \in CallerBackups

CallWriteBackupStatus == \E status \in BackupStatuses : WriteBackupStatus(status)
CallWriteBackupStatusFails ==
    \E status \in BackupStatuses : WriteBackupStatusFails(status)

NextStatus == CallWriteBackupStatus \/ CallWriteBackupStatusFails

SpecStatus == InitStatus /\ [][NextStatus]_vars

(***************************************************************************)
(* Properties of the lock manager.                                         *)
(***************************************************************************)
\* the lockfile of backup b as a reader of the path sees it
LockFileExists(b) == lock_dirent[b] # NoIno
LockFileContent(b) == lock_inode[lock_dirent[b]]

\* processes that were told true for backup b and have not called exit()
Holders(b) ==
    {p \in Procs : b \in acquired[p] /\ pc[p] \notin {"atexit", "exited"}}

\* C1: at most one process at a time has received true from lock_backup for
\* a backup directory and not yet exited, also when the run starts with a
\* stale lockfile.
C1_MutualExclusion == \A b \in Backups : Cardinality(Holders(b)) <= 1

\* the running call of p found the lockfile of its backup owned by a live
\* process that is neither p nor its parent
OwnerIsLiveStranger(p) ==
    /\ pc[p] \in {"create", "open", "read", "probe"}
    /\ LockFileExists(cur[p])
    /\ Len(LockFileContent(cur[p])) = 1
    /\ LockFileContent(cur[p])[1] > 0
    /\ ~IsFalseMatch(p, LockFileContent(cur[p])[1])
    /\ Kill(LockFileContent(cur[p])[1]) = "OK"

\* C3: a call that finds the lockfile holding the PID of a live process that
\* is neither the caller nor its parent goes on to return false: no step of
\* it is fatal, changes the lockfile or its content, or records the path in
\* lock_files.
C3_LiveOwnerReturnsFalse ==
    [][\A p \in SoloProcs :
          OwnerIsLiveStranger(p) =>
             /\ pc'[p] \in {"open", "read", "probe", "idle"}
             /\ pc'[p] = "idle" => ret'[p] = "false"
             /\ ~fatal'[p]
             /\ lock_dirent' = lock_dirent
             /\ LockFileContent(cur[p])' = LockFileContent(cur[p])
             /\ lock_files' = lock_files
             /\ acquired' = acquired]_vars

C3_Witness ==
    \E p \in SoloProcs :
       /\ pc[p] = "idle"
       /\ ret[p] = "false"
       /\ LockFileExists(cur[p])
       /\ LockFileContent(cur[p]) = <<LivePid>>
       /\ lock_files[p] = <<>>

\* C4: alone, a call that read the PID of a process that no longer exists
\* (ESRCH) is never answered false and never fails unless writing the new
\* file fails; it unlinks the file, creates it again, and when it returns,
\* it returns true with a lockfile that holds the caller's PID.
C4_StaleLockRecovered ==
    /\ [](\A p \in SoloProcs :
            encoded_pid[p] = DeadPid =>
               /\ ret[p] # "false"
               /\ pc[p] = "idle" =>
                     /\ ret[p] = "true"
                     /\ LockFileExists(cur[p])
                     /\ LockFileContent(cur[p]) = <<Pid(p)>>
                     /\ cur[p] \in Range(lock_files[p]))
    /\ [][\A p \in SoloProcs :
            encoded_pid[p] = DeadPid =>
               /\ pc[p] = "probe" => pc'[p] = "unlink"
               /\ pc[p] = "unlink" =>
                     /\ LockFileExists(cur[p])
                     /\ ~LockFileExists(cur[p])'
                     /\ pc'[p] = "create"
               /\ pc[p] = "create" => pc'[p] = "fill" /\ LockFileExists(cur[p])'
               /\ (fatal'[p] /\ ~fatal[p]) => pc[p] = "fill_failed"]_vars

C4_Witness ==
    \E p \in SoloProcs :
       /\ encoded_pid[p] = DeadPid
       /\ pc[p] = "idle"
       /\ ret[p] = "true"
       /\ LockFileContent(cur[p]) = <<Pid(p)>>

\* C5: a lockfile that holds the caller's PID, its parent's PID or the
\* grandparent PID of PG_GRANDPARENT_PID is stale: the owner is not probed
\* and the call is not answered false.
C5_FamilyPidIsStale ==
    \A p \in SoloProcs :
       encoded_pid[p] \in {Pid(p), PPid(p), GPPid(p)} =>
          pc[p] # "probe" /\ ret[p] # "false"

C7_ExitCleanup ==
    \A p \in SoloProcs :
       /\ atexit_hooks[p] <= 1
       /\ pc[p] = "exited" => \A b \in acquired[p] : ~LockFileExists(b)

C7_Witness ==
    \E p \in SoloProcs :
       /\ pc[p] = "exited"
       /\ Cardinality(acquired[p]) = 2
       /\ atexit_hooks[p] = 1

(***************************************************************************)
(* Properties of the control-file codec.                                   *)
(***************************************************************************)
\* a field write_backup leaves out reads back as its pgBackupInit default
\* (backup_id and parent_backup_link are not in the file)
Persisted(backup) ==
    [backup EXCEPT
        !.backup_id = pgBackupInit.backup_id,
        !.parent_backup_link = pgBackupInit.parent_backup_link,
        !.uncompressed_bytes = IF @ >= 0 THEN @ ELSE pgBackupInit.uncompressed_bytes,
        !.pgdata_bytes = IF @ >= 0 THEN @ ELSE pgBackupInit.pgdata_bytes]

\* C9 (original): for every backup with start_time != 0, write_backup and
\* then read_backup give a backup equal on every persisted field, the fields
\* left out of the file reading back as their pgBackupInit defaults.
C9_RoundTripIdentity ==
    (c_pc = "read" /\ c_backup.start_time # 0) =>
       c_read = Loaded(Persisted(c_backup))

\* C9 (amended): the same for every backup with start_time != 0 and a
\* backup mode other than INVALID, but a compress_alg of NOT_DEFINED is
\* written as "none" and reads back as NONE.
C9_RoundTripButNotDefined ==
    (c_pc = "read" /\ c_backup.start_time # 0
        /\ c_backup.backup_mode # "BACKUP_MODE_INVALID") =>
       c_read = Loaded([Persisted(c_backup) EXCEPT
                           !.compress_alg = IF @ = "NOT_DEFINED_COMPRESS"
                                            THEN "NONE_COMPRESS" ELSE @])

C9_Witness ==
    /\ c_pc = "read"
    /\ c_backup.start_lsn = <<2, 1>>
    /\ c_read.rc = "OK"
    /\ c_read.backup.start_lsn = <<2, 1>>

(***************************************************************************)
(* Properties of write_backup.                                             *)
(***************************************************************************)
IsPrefix(s, t) == Len(s) <= Len(t) /\ SubSeq(t, 1, Len(s)) = s

\* what a reader has read so far is the start of a version, and once it
\* returns, the whole of one
ReadersSeeVersions ==
    \A r \in Readers :
       /\ r_pc[r] = "done" => r_seen[r] \in r_ok[r]
       /\ r_pc[r] = "read" =>
             \E v \in r_ok[r] : v.exists /\ IsPrefix(r_seen[r].lines, v.lines)

\* the stream write_backup writes to is backup.control.tmp, never
\* backup.control
WritesGoToTemp ==
    w_pc \in {"write", "flush"} =>
       /\ w_fp # NoIno
       /\ w_fp = ctl_dirent[TempPath(BACKUP_CONTROL_FILE)]
       /\ w_fp # ctl_dirent[BACKUP_CONTROL_FILE]

\* backup.control changes in the rename only, to the whole new content
VisibleAtRename ==
    ControlState' # ControlState =>
       /\ w_pc = "rename"
       /\ w_pc' = "returned"
       /\ ControlState' = Version(w_backup)

\* C2: during a write_backup every concurrent read_backup sees the whole
\* previous backup.control or the whole new one, never a part or a mix; the
\* new content is written to backup.control.tmp only and shows at the rename.
C2_ControlFileAtomic ==
    /\ [](ReadersSeeVersions /\ WritesGoToTemp)
    /\ [][VisibleAtRename]_vars

\* a reader that opened the old file returns it after the rename
C2_Witness ==
    \E r \in Readers :
       /\ r_pc[r] = "done"
       /\ w_pc = "returned"
       /\ r_seen[r].exists
       /\ r_seen[r] # ControlState
       /\ Cardinality(r_ok[r]) = 2

\* C8: when opening the temporary file, the flush or close, or the rename
\* fails, write_backup ends in a fatal error, no backup.control.tmp is left
\* and backup.control is as it was before the call.
C8_FailureLeavesNoTemp ==
    w_pc = "fatal" =>
       /\ ~FileState(ctl_dirent, ctl_inode, TempPath(BACKUP_CONTROL_FILE)).exists
       /\ ControlState = w_prev

(***************************************************************************)
(* Properties of catalog_get_backup_list.                                  *)
(***************************************************************************)
\* C10: every list catalog_get_backup_list returns is in descending order
\* of start_time, and each of its elements, the stubs of directories
\* without a readable control file too, has backup_id = start_time.
C10_ListSortedByStartTime ==
    list_ret = "OK" =>
       /\ \A i, j \in 1..Len(backups) :
             i < j => backups[i].start_time >= backups[j].start_time
       /\ \A i \in 1..Len(backups) : backups[i].backup_id = backups[i].start_time

\* a list of three backups, a stub among them
C10_Witness ==
    /\ list_ret = "OK"
    /\ Len(backups) = 3
    /\ backups[1].start_time > backups[3].start_time
    /\ \E i \in 1..3 :
          /\ backups[i].status = "BACKUP_STATUS_INVALID"
          /\ backups[i].start_time # 0

\* C11: in every list catalog_get_backup_list returns, a FULL backup has no
\* parent_backup_link; a backup of another mode has one exactly when some
\* element of the list has start_time = its parent_backup, and the link
\* then points to such an element of that list.
C11_ParentLinks ==
    list_ret = "OK" =>
       \A i \in 1..Len(backups) :
          LET b == backups[i] IN
          IF b.backup_mode = "BACKUP_MODE_FULL"
          THEN b.parent_backup_link = NoLink
          ELSE /\ b.parent_backup_link \in {NoLink} \cup (1..Len(backups))
               /\ b.parent_backup_link # NoLink =>
                     backups[b.parent_backup_link].start_time = b.parent_backup
               /\ b.parent_backup_link = NoLink <=>
                     ~\E j \in 1..Len(backups) :
                         backups[j].start_time = b.parent_backup

\* a list of three in which one backup is linked to its parent and another
\* names a parent that is not in the list
C11_Witness ==
    /\ list_ret = "OK"
    /\ Len(backups) = 3
    /\ \E i, j \in 1..3 :
          /\ backups[i].parent_backup_link = j
          /\ i # j
    /\ \E i \in 1..3 :
          /\ backups[i].backup_mode # "BACKUP_MODE_FULL"
          /\ backups[i].parent_backup_link = NoLink

(***************************************************************************)
(* Properties of the parent-chain functions.                               *)
(***************************************************************************)
\* the backups met from backup i along parent_backup_link, i first
RECURSIVE Chain(_, _)
Chain(list, i) ==
    IF list[i].parent_backup_link = NoLink THEN <<i>>
    ELSE <<i>> \o Chain(list, list[i].parent_backup_link)

\* C12: scan_parent_chain(b) returns 0 with the backup the walk along
\* parent_backup_link ends at iff that backup is not FULL; 1 iff it is FULL
\* and a backup of the walk (b first, the base FULL last) has a status
\* other than OK and DONE, with the oldest such backup; 2 with the base FULL
\* iff the walk ends at a FULL backup and all its backups are OK or DONE.
C12_ScanParentChain ==
    chain_call.fn = "scan_parent_chain" =>
       LET walk == Chain(backup_list, chain_call.args[1])
           last == walk[Len(walk)]
           endsAtFull == backup_list[last].backup_mode = "BACKUP_MODE_FULL"
           invalid == {k \in 1..Len(walk) : ~StatusOkOrDone(backup_list[walk[k]])}
           rc == chain_call.ret[1]
           result_backup == chain_call.ret[2]
       IN /\ rc \in {0, 1, 2}
          /\ rc = 0 <=> ~endsAtFull
          /\ rc = 1 <=> endsAtFull /\ invalid # {}
          /\ rc = 2 <=> endsAtFull /\ invalid = {}
          /\ rc = 0 => result_backup = last
          /\ rc = 1 => /\ result_backup \in {walk[k] : k \in invalid}
                       /\ \A k \in invalid :
                             backup_list[walk[k]].start_time
                                >= backup_list[result_backup].start_time
          /\ rc = 2 => result_backup = last

\* a chain of three that ends at a FULL backup which is not OK: code 1
\* with that FULL backup, although a younger backup is not OK either
C12_Witness ==
    /\ chain_call.fn = "scan_parent_chain"
    /\ Len(Chain(backup_list, chain_call.args[1])) = 3
    /\ chain_call.ret = <<1, 3>>
    /\ ~StatusOkOrDone(backup_list[2])

\* C13 (original): is_parent(t, child, inclusive) is true iff a backup
\* reached from child along parent_backup_link, child excluded, has
\* start_time t, or inclusive holds and child.start_time = t.
C13_IsParentByStartTime ==
    chain_call.fn = "is_parent" =>
       LET t == chain_call.args[1]
           child == chain_call.args[2]
           inclusive == chain_call.args[3]
           walk == Chain(backup_list, child)
       IN chain_call.ret[1] <=>
             \/ \E k \in 2..Len(walk) : backup_list[walk[k]].start_time = t
             \/ inclusive /\ backup_list[child].start_time = t

\* C13 (amended): is_parent(t, child, inclusive) is true iff a backup of
\* the walk from child along parent_backup_link, child included, has
\* parent_backup = t, or inclusive holds and child.start_time = t.
C13_IsParentByParentBackup ==
    chain_call.fn = "is_parent" =>
       LET t == chain_call.args[1]
           child == chain_call.args[2]
           inclusive == chain_call.args[3]
           walk == Chain(backup_list, child)
       IN chain_call.ret[1] <=>
             \/ \E k \in 1..Len(walk) : backup_list[walk[k]].parent_backup = t
             \/ inclusive /\ backup_list[child].start_time = t

\* is_parent answers true for a parent that is not in the list
C13_Witness ==
    /\ chain_call.fn = "is_parent"
    /\ chain_call.ret = <<TRUE>>
    /\ ~\E i \in 1..Len(backup_list) :
           backup_list[i].start_time = chain_call.args[1]

\* C14: catalog_get_last_data_backup(list, tli, cur) returns NULL when the
\* list has no FULL backup on tli that is OK or DONE; otherwise the newest
\* backup that is OK or DONE, whose walk ends at a FULL backup with every
\* backup of it OK or DONE, and that FULL backup is the latest OK or DONE
\* FULL backup on tli.
C14_LastDataBackup ==
    chain_call.fn = "catalog_get_last_data_backup" =>
       LET tli == chain_call.args[1]
           fulls == {i \in 1..Len(backup_list) :
                        /\ backup_list[i].backup_mode = "BACKUP_MODE_FULL"
                        /\ StatusOkOrDone(backup_list[i])
                        /\ backup_list[i].tli = tli}
           latest == CHOOSE i \in fulls :
                        \A j \in fulls : backup_list[j].start_time
                                            <= backup_list[i].start_time
           Rooted(i) ==
              LET walk == Chain(backup_list, i) IN
              /\ \A k \in 1..Len(walk) : StatusOkOrDone(backup_list[walk[k]])
              /\ walk[Len(walk)] = latest
           found == chain_call.ret[1]
       IN IF fulls = {} THEN found = NoLink
          ELSE /\ found \in 1..Len(backup_list)
               /\ Rooted(found)
               /\ \A i \in 1..Len(backup_list) :
                     Rooted(i) => backup_list[i].start_time
                                     <= backup_list[found].start_time

\* FULL A, DELTA B of A, DELTA C of B, all OK or DONE, A on the timeline
\* asked for: the call returns C
C14_Witness ==
    /\ chain_call.fn = "catalog_get_last_data_backup"
    /\ Len(backup_list) = 3
    /\ backup_list[1].parent_backup_link = 2
    /\ backup_list[2].parent_backup_link = 3
    /\ backup_list[3].backup_mode = "BACKUP_MODE_FULL"
    /\ backup_list[3].tli = chain_call.args[1]
    /\ \A i \in 1..3 : StatusOkOrDone(backup_list[i])
    /\ chain_call.ret = <<1>>

\* C15: catalog_get_last_data_backup never returns the backup whose
\* start_time is current_start_time.
C15_NeverReturnsCurrent ==
    chain_call.fn = "catalog_get_last_data_backup" =>
       \/ chain_call.ret[1] = NoLink
       \/ backup_list[chain_call.ret[1]].start_time # chain_call.args[2]

(***************************************************************************)
(* Properties of catalog_get_timelines.                                    *)
(***************************************************************************)
Retained == tl_ret = "OK" /\ instance_config.wal_depth > 0
Segno(lsn) == lsn[1] * 256 + lsn[2] \div XLOG_SEG_SIZE
InInterval(segno, interval) ==
    interval.begin_segno <= segno /\ segno <= interval.end_segno

\* the backups of the catalog that are on timeline tli and that the search
\* for an anchor counts
ValidBackups(tli) ==
    {j \in 1..Len(catalog_backups) :
        /\ catalog_backups[j].tli = tli
        /\ StatusOkOrDone(catalog_backups[j])
        /\ catalog_backups[j].start_lsn # InvalidXLogRecPtr
        /\ catalog_backups[j].tli > 0}

\* the n-th newest of them
NthNewest(tli, n) ==
    CHOOSE j \in ValidBackups(tli) :
       Cardinality({k \in ValidBackups(tli) :
                       catalog_backups[k].start_time
                          >= catalog_backups[j].start_time}) = n

HasOwnAnchor(tlinfo) ==
    tlinfo.anchor_lsn # InvalidXLogRecPtr /\ tlinfo.anchor_tli = tlinfo.tli

\* C16: with wal_depth > 0, on a timeline whose anchor_lsn is valid and
\* whose anchor_tli is the timeline, a file of xlog_filelist has keep set
\* iff its segno is not below the segment of anchor_lsn or lies in an
\* interval of the timeline's keep_segments.
C16_KeepFlags ==
    Retained =>
       \A i \in 1..Len(timelines) :
          LET tlinfo == timelines[i] IN
          HasOwnAnchor(tlinfo) =>
             \A k \in 1..Len(tlinfo.xlog_filelist) :
                LET wal_file == tlinfo.xlog_filelist[k] IN
                wal_file.keep <=>
                   \/ wal_file.segno >= Segno(tlinfo.anchor_lsn)
                   \/ \E j \in 1..Len(tlinfo.keep_segments) :
                         InInterval(wal_file.segno, tlinfo.keep_segments[j])

\* a timeline with a file below the anchor that is kept because of an
\* interval, one below the anchor that is not kept, and one kept because
\* it is not below the anchor
C16_Witness ==
    /\ Retained
    /\ \E i \in 1..Len(timelines) :
          LET tlinfo == timelines[i] IN
          /\ HasOwnAnchor(tlinfo)
          /\ \E k \in 1..Len(tlinfo.xlog_filelist) :
                /\ tlinfo.xlog_filelist[k].segno < Segno(tlinfo.anchor_lsn)
                /\ tlinfo.xlog_filelist[k].keep
          /\ \E k \in 1..Len(tlinfo.xlog_filelist) :
                /\ tlinfo.xlog_filelist[k].segno < Segno(tlinfo.anchor_lsn)
                /\ ~tlinfo.xlog_filelist[k].keep
          /\ \E k \in 1..Len(tlinfo.xlog_filelist) :
                /\ tlinfo.xlog_filelist[k].segno >= Segno(tlinfo.anchor_lsn)
                /\ tlinfo.xlog_filelist[k].keep

\* C17: a timeline with wal_depth or more backups that are OK or DONE,
\* with a valid start_lsn and tli > 0, gets as anchor_lsn the start_lsn,
\* and as anchor_tli the tli, of the wal_depth-th newest of them, whatever
\* the status of the other backups; every WAL file of the timeline from the
\* segment in which one of the wal_depth newest of them started is kept.
C17_AnchorSelection ==
    Retained =>
       \A i \in 1..Len(timelines) :
          LET tlinfo == timelines[i]
              wal_depth == instance_config.wal_depth
          IN Cardinality(ValidBackups(tlinfo.tli)) >= wal_depth =>
                LET anchor == catalog_backups[NthNewest(tlinfo.tli, wal_depth)] IN
                /\ tlinfo.anchor_lsn = anchor.start_lsn
                /\ tlinfo.anchor_tli = anchor.tli
                /\ \A n \in 1..wal_depth :
                      \A k \in 1..Len(tlinfo.xlog_filelist) :
                         tlinfo.xlog_filelist[k].segno
                            >= Segno(catalog_backups[NthNewest(tlinfo.tli, n)].start_lsn)
                         => tlinfo.xlog_filelist[k].keep

\* wal_depth 2 on a timeline of three backups, the middle one failed: the
\* oldest backup is the anchor
C17_Witness ==
    /\ Retained
    /\ instance_config.wal_depth = 2
    /\ Len(catalog_backups) = 3
    /\ \A j \in 1..3 : catalog_backups[j].tli = 1
    /\ catalog_backups[2].status = "BACKUP_STATUS_ERROR"
    /\ timelines[1].anchor_lsn = catalog_backups[3].start_lsn

\* the intervals of keep_segments that a backup appended
IntervalsOf(tlinfo, backup) ==
    SelectSeq(tlinfo.keep_segments, LAMBDA x : x.backup = backup.start_time)

\* C18: on a timeline with its own anchor, a backup of the timeline with
\* start_lsn < anchor_lsn that is not streamed and has a valid start_lsn
\* and tli > 0 appends one interval to keep_segments, from the segment of
\* its start_lsn to the segment of its stop_lsn, or to the next one if it
\* was taken from a replica; every other backup of the timeline appends
\* none.
C18_ArchiveIntervals ==
    Retained =>
       \A i \in 1..Len(timelines) :
          LET tlinfo == timelines[i] IN
          HasOwnAnchor(tlinfo) =>
             \A j \in 1..Len(catalog_backups) :
                LET backup == catalog_backups[j]
                    mine == IntervalsOf(tlinfo, backup)
                IN backup.tli = tlinfo.tli =>
                      IF /\ LsnLess(backup.start_lsn, tlinfo.anchor_lsn)
                         /\ ~backup.stream
                         /\ backup.start_lsn # InvalidXLogRecPtr
                         /\ backup.tli > 0
                      THEN /\ Len(mine) = 1
                           /\ mine[1].begin_segno = Segno(backup.start_lsn)
                           /\ mine[1].end_segno =
                                 IF backup.from_replica
                                 THEN Segno(backup.stop_lsn) + 1
                                 ELSE Segno(backup.stop_lsn)
                      ELSE Len(mine) = 0

\* wal_depth 1, the newest backup failed, the next is the anchor, and the
\* oldest, taken from a replica, appended an interval that ends one
\* segment after its stop_lsn
C18_Witness ==
    /\ Retained
    /\ instance_config.wal_depth = 1
    /\ Len(catalog_backups) = 3
    /\ \A j \in 1..3 : catalog_backups[j].tli = 1
    /\ ~StatusOkOrDone(catalog_backups[1])
    /\ timelines[1].anchor_lsn = catalog_backups[2].start_lsn
    /\ catalog_backups[3].from_replica
    /\ Len(IntervalsOf(timelines[1], catalog_backups[3])) = 1
    /\ IntervalsOf(timelines[1], catalog_backups[3])[1].end_segno
          = Segno(catalog_backups[3].stop_lsn) + 1

\* the timelines met from the timeline at place i along parent_link, that
\* timeline first
RECURSIVE Lineage(_)
Lineage(i) ==
    IF timelines[i].parent_link = 0 THEN <<i>>
    ELSE <<i>> \o Lineage(timelines[i].parent_link)

\* the intervals of keep_segments that the walk from timeline tli appended
WalkIntervals(ancestor, branch) ==
    SelectSeq(ancestor.keep_segments, LAMBDA x : x.branch = branch)

BranchScenario ==
    /\ tl_ret = "OK"
    /\ instance_config.wal_depth = 1
    /\ Len(timelines) = 2
    /\ timelines[2].parent_link = 1
    /\ Len(catalog_backups) = 2
    /\ catalog_backups[1].tli = 2
    /\ catalog_backups[1].status = "BACKUP_STATUS_OK"
    /\ catalog_backups[2].tli = 1
    /\ catalog_backups[2].status = "BACKUP_STATUS_OK"
    /\ LsnLess(catalog_backups[2].start_lsn, timelines[2].switchpoint)

\* C20 (original): in the scenario the anchor of timeline 2 is X, and an
\* interval of timeline 1's keep_segments covers the segments from the one
\* A began in to the one of timeline 2's switchpoint.
C20_BranchKeepSegments ==
    BranchScenario =>
       /\ timelines[2].anchor_lsn = catalog_backups[1].start_lsn
       /\ timelines[2].anchor_tli = 2
       /\ \E k \in 1..Len(timelines[1].keep_segments) :
             /\ timelines[1].keep_segments[k].begin_segno
                   <= Segno(catalog_backups[2].start_lsn)
             /\ timelines[1].keep_segments[k].end_segno
                   >= Segno(timelines[2].switchpoint)

\* C20 (amended): in the scenario the anchor of timeline 2 is X and the
\* anchor of timeline 1 is A; timeline 1 has no keep_segments, and its
\* files from the segment A began in to the segment of timeline 2's
\* switchpoint are kept because they are not below its anchor.
C20_BranchAnchors ==
    BranchScenario =>
       /\ timelines[2].anchor_lsn = catalog_backups[1].start_lsn
       /\ timelines[2].anchor_tli = 2
       /\ timelines[1].anchor_lsn = catalog_backups[2].start_lsn
       /\ timelines[1].anchor_tli = 1
       /\ timelines[1].keep_segments = <<>>
       /\ \A k \in 1..Len(timelines[1].xlog_filelist) :
             LET wal_file == timelines[1].xlog_filelist[k] IN
             /\ wal_file.segno >= Segno(catalog_backups[2].start_lsn)
             /\ wal_file.segno <= Segno(timelines[2].switchpoint)
             => wal_file.keep

\* the scenario, with WAL files of timeline 1 between A and the switchpoint
C20_Witness ==
    /\ BranchScenario
    /\ \E k \in 1..Len(timelines[1].xlog_filelist) :
          /\ timelines[1].xlog_filelist[k].segno = Segno(timelines[2].switchpoint)
          /\ timelines[1].xlog_filelist[k].keep

\* C21: with wal_depth > 0, for a timeline with fewer than wal_depth valid
\* backups and with a closest_backup, each WAL file of each timeline above
\* it whose segno lies in the interval the walk from it appended there has
\* keep set, or the anchor of the file's timeline lies on another timeline.
C21_CrossTimelineProtection ==
    Retained =>
       \A i \in 1..Len(timelines) :
          /\ Cardinality(ValidBackups(timelines[i].tli)) < instance_config.wal_depth
          /\ timelines[i].closest_backup # 0
          => \A n \in 2..Len(Lineage(i)) :
                LET ancestor == timelines[Lineage(i)[n]]
                    walked == WalkIntervals(ancestor, timelines[i].tli)
                IN \A w \in 1..Len(walked), k \in 1..Len(ancestor.xlog_filelist) :
                      InInterval(ancestor.xlog_filelist[k].segno, walked[w])
                      => \/ ancestor.xlog_filelist[k].keep
                         \/ /\ ancestor.anchor_lsn # InvalidXLogRecPtr
                            /\ ancestor.anchor_tli > 0
                            /\ ancestor.anchor_tli # ancestor.tli

\* the backups of the catalog on the timeline at place a that are OK or
\* DONE and whose stop_lsn is valid and not after switchpoint
Candidates(a, switchpoint) ==
    {j \in 1..Len(catalog_backups) :
        /\ catalog_backups[j].tli = timelines[a].tli
        /\ StatusOkOrDone(catalog_backups[j])
        /\ catalog_backups[j].stop_lsn # InvalidXLogRecPtr
        /\ XRecOffIsValid(catalog_backups[j].stop_lsn)
        /\ ~LsnLess(switchpoint, catalog_backups[j].stop_lsn)}

\* j is a backup of the greatest stop_lsn among the backups of the set
GreatestStopLsn(j, candidates) ==
    /\ j \in candidates
    /\ \A k \in candidates :
          ~LsnLess(catalog_backups[j].stop_lsn, catalog_backups[k].stop_lsn)

\* C22 (original): closest_backup of a timeline T is the backup of the
\* greatest stop_lsn among the backups of all timelines above T that are OK
\* or DONE and whose valid stop_lsn is not after T's switchpoint; it is
\* null iff there is no such backup.
C22_ClosestAmongAllAncestors ==
    tl_ret = "OK" =>
       \A i \in 1..Len(timelines) :
          LET line == Lineage(i)
              candidates == UNION {Candidates(line[n], timelines[i].switchpoint) :
                                      n \in 2..Len(line)}
          IN IF candidates = {} THEN timelines[i].closest_backup = 0
             ELSE GreatestStopLsn(timelines[i].closest_backup, candidates)

\* C22 (amended): closest_backup of a timeline T is taken from the nearest
\* timeline above T that holds a backup that is OK or DONE and whose valid
\* stop_lsn is not after the switchpoint of the timeline through which T
\* descends from it (T itself for T's parent); it is the backup of the
\* greatest stop_lsn among those of that timeline, and null iff no timeline
\* above T holds such a backup.
C22_ClosestOnNearestAncestor ==
    tl_ret = "OK" =>
       \A i \in 1..Len(timelines) :
          LET line == Lineage(i)
              AtLevel(n) == Candidates(line[n], timelines[line[n - 1]].switchpoint)
              levels == {n \in 2..Len(line) : AtLevel(n) # {}}
          IN IF levels = {} THEN timelines[i].closest_backup = 0
             ELSE \E n \in levels :
                     /\ \A m \in levels : n <= m
                     /\ GreatestStopLsn(timelines[i].closest_backup, AtLevel(n))

\* timeline 3 descends from timeline 1 through timeline 2; timeline 2 holds
\* a backup, but the closest backup of timeline 3 is on timeline 1, where
\* a later backup made before timeline 3's switchpoint is passed over
C22_Witness ==
    /\ tl_ret = "OK"
    /\ Len(timelines) = 3
    /\ Lineage(3) = <<3, 2, 1>>
    /\ timelines[2].backups # <<>>
    /\ timelines[3].closest_backup # 0
    /\ catalog_backups[timelines[3].closest_backup].tli = 1
    /\ \E j \in 1..Len(catalog_backups) :
          /\ catalog_backups[j].tli = 1
          /\ StatusOkOrDone(catalog_backups[j])
          /\ LsnLess(catalog_backups[timelines[3].closest_backup].stop_lsn,
                     catalog_backups[j].stop_lsn)
          /\ ~LsnLess(timelines[3].switchpoint, catalog_backups[j].stop_lsn)

(***************************************************************************)
(* Properties of the scan of the archive.                                  *)
(***************************************************************************)
\* the segnos of the SEGMENT entries of a timeline's xlog_filelist
SegmentSegnos(tlinfo) ==
    {tlinfo.xlog_filelist[k].segno : k \in
        {k \in 1..Len(tlinfo.xlog_filelist) :
            tlinfo.xlog_filelist[k].type = "SEGMENT"}}

\* the intervals of lost_segments that segno lies in
LostWith(tlinfo, segno) ==
    {k \in 1..Len(tlinfo.lost_segments) :
        InInterval(segno, tlinfo.lost_segments[k])}

\* each segno from begin_segno to end_segno is the segno of a SEGMENT
\* entry or lies in exactly one interval of lost_segments, never both
Covered(tlinfo) ==
    \A segno \in tlinfo.begin_segno..tlinfo.end_segno :
       IF segno \in SegmentSegnos(tlinfo)
       THEN LostWith(tlinfo, segno) = {}
       ELSE Cardinality(LostWith(tlinfo, segno)) = 1

\* each interval of lost_segments has begin <= end and lies between the
\* segno of the SEGMENT entry before it and the segno of the one that
\* revealed it
LostBetweenSegments(tlinfo) ==
    \A k \in 1..Len(tlinfo.lost_segments) :
       LET interval == tlinfo.lost_segments[k] IN
       /\ interval.begin_segno <= interval.end_segno
       /\ interval.begin_segno - 1 \in SegmentSegnos(tlinfo)
       /\ interval.end_segno + 1 \in SegmentSegnos(tlinfo)

\* C23 (original): for every timeline built from the sorted archive, each
\* segno in [begin_segno, end_segno] is the segno of a SEGMENT entry or
\* lies in exactly one lost_segments interval, never both; every
\* lost_segments interval is [end_segno before + 1, segno - 1] with
\* begin <= end (so a file of the segno of end_segno adds none).
C23_SegmentCoverage ==
    tl_ret = "OK" =>
       \A i \in 1..Len(timelines) :
          Covered(timelines[i]) /\ LostBetweenSegments(timelines[i])

\* C23 (amended): the same for every timeline that has a SEGMENT entry; a
\* timeline built from other files only has begin_segno = end_segno = 0 and
\* neither a SEGMENT entry nor a lost_segments interval.
C23_SegmentCoverageOfSegments ==
    tl_ret = "OK" =>
       \A i \in 1..Len(timelines) :
          IF timelines[i].n_xlog_files > 0
          THEN Covered(timelines[i]) /\ LostBetweenSegments(timelines[i])
          ELSE /\ timelines[i].begin_segno = 0
               /\ timelines[i].end_segno = 0
               /\ SegmentSegnos(timelines[i]) = {}
               /\ timelines[i].lost_segments = <<>>

\* a timeline that misses a segment and has another both compressed and
\* not: one interval, two SEGMENT entries of one segno
C23_Witness ==
    /\ tl_ret = "OK"
    /\ \E i \in 1..Len(timelines) :
          /\ Len(timelines[i].lost_segments) = 1
          /\ timelines[i].lost_segments[1].begin_segno
                = timelines[i].lost_segments[1].end_segno
          /\ timelines[i].n_xlog_files
                > Cardinality(SegmentSegnos(timelines[i]))

\* C29: every interval of every timeline's keep_segments has
\* begin_segno <= end_segno, the intervals of ARCHIVE backups (those of
\* backups with an invalid stop_lsn too) as well as the intervals of the
\* walks over parent timelines.
C29_KeepIntervalsWellFormed ==
    Retained =>
       \A i \in 1..Len(timelines) :
          \A k \in 1..Len(timelines[i].keep_segments) :
             timelines[i].keep_segments[k].begin_segno
                <= timelines[i].keep_segments[k].end_segno

(***************************************************************************)
(* Properties of write_backup_filelist.                                    *)
(***************************************************************************)
\* C24: when write_backup_filelist has returned, the file list holds one
\* line per element of files, in the order of files, whatever the number of
\* elements and the lengths of their lines, also when buf was written to
\* the file in the middle of the list.
C24_OneLinePerFile ==
    fl_pc = "OK" =>
       /\ fl_list.exists
       /\ fl_list.lines = [k \in 1..Len(fl_files) |-> FilelistLine(fl_files[k])]

(***************************************************************************)
(* Termination of lock_backup.                                             *)
(***************************************************************************)
\* the process is inside lock_backup
InLockBackup(p) ==
    pc[p] \in {"create", "open", "read", "probe", "unlink", "fill", "fill_failed"}

\* fio_open(O_CREAT | O_EXCL) is about to be tried for the n-th time
Attempt(p) == ntries[p] + 1

C27_NoFatalFromLivePeer ==
    [][\A p \in Procs : fatal'[p] /\ ~fatal[p] => pc[p] = "fill_failed"]_vars

(***************************************************************************)
(* Properties of catalog_lock_backup_list.                                 *)
(***************************************************************************)
\* the indexes of the range of the call of p
RangeOf(p) ==
    Min(ll_range[p][1], ll_range[p][2]) .. Max(ll_range[p][1], ll_range[p][2])

\* lock_backup was called in decreasing index order from max(from, to) on
TriedInOrder(p) ==
    \A k \in 1 .. Len(ll_tried[p]) :
       /\ ll_tried[p][k] = Max(ll_range[p][1], ll_range[p][2]) - (k - 1)
       /\ ll_tried[p][k] \in RangeOf(p)

\* the lockfile of backup b is there and holds the PID of p
HoldsLock(p, b) == LockFileExists(b) /\ LockFileContent(b) = <<Pid(p)>>

\* the parts of C30 that hold of catalog_lock_backup_list next to
\* contenders: the order of the attempts, the fatal error on false with the
\* release by the exit hook, and the empty list
LockListOrder == \A p \in Procs : TriedInOrder(p)

LockListFatalOnFalse ==
    \A p \in Procs :
       /\ ll_pc[p] \in {"loop", "returned"} /\ ll_tried[p] # <<>>
             => ret[p] = "true"
       /\ ll_pc[p] = "ERROR" => fatal[p] /\ pc[p] \in {"atexit", "exited"}
       /\ ll_pc[p] = "ERROR" /\ pc[p] = "exited" =>
             \A b \in acquired[p] : ~HoldsLock(p, b)

LockListEmptyNoop ==
    \A p \in Procs :
       ll_pc[p] = "returned" /\ Len(ll_list[p]) = 0 =>
          ll_tried[p] = <<>> /\ calls[p] = 0 /\ acquired[p] = {}

\* C30: catalog_lock_backup_list(list, from, to) attempts the locks in
\* decreasing index order from max(from, to) down to min(from, to); at the
\* step it returns, the process holds the lock of every backup in that
\* index range; a false from lock_backup ends in a fatal error after which
\* the exit hook has released the locks taken; an empty list is a no-op.
C30_LockBackupList ==
    [][\A p \in Procs :
          /\ TriedInOrder(p)'
          /\ LockListFatalOnFalse'
          /\ LockListEmptyNoop'
          /\ ll_pc[p] = "loop" /\ ll_pc'[p] = "returned" =>
                /\ Len(ll_tried[p]) = Cardinality(RangeOf(p))
                /\ \A i \in RangeOf(p) :
                      HoldsLock(p, parray_get(ll_list[p], i))]_vars

(***************************************************************************)
(* Properties of write_backup_status.                                      *)
(***************************************************************************)
\* the fields of a backup other than its status
OtherFields == DOMAIN pgBackupInit \ {"status"}

\* C26: write_backup_status(backup, s) changes only the status field of the
\* control file on disk: when it returns, every other persisted field reads
\* as it read from disk before the call, not as the caller has it, no other
\* control file is changed, and backup.status in memory is s; when the
\* control file cannot be read, neither a file nor the status in memory
\* changes.
C26_OnlyStatusChanges ==
    [][ws_pc' = "returned" =>
          LET old == read_backup(ws_files, ws_backup.start_time)
              new == read_backup(ws_files', ws_backup.start_time)
          IN
          IF old.rc = "OK"
          THEN /\ new.rc = "OK"
               /\ \A f \in OtherFields : new.backup[f] = old.backup[f]
               /\ new.backup.status = ws_backup'.status
               /\ \A t \in StatusDirs \ {ws_backup.start_time} :
                     ws_files'[t] = ws_files[t]
               /\ \E s \in BackupStatuses :
                     ws_backup' = [ws_backup EXCEPT !.status = s]
          ELSE UNCHANGED <<ws_files, ws_backup>>]_vars

\* the caller's backup differed from the file in more than the status, and
\* the file now has the new status and still its own values
C26_Witness ==
    /\ ws_pc = "returned"
    /\ LET new == read_backup(ws_files, ws_backup.start_time) IN
       /\ new.rc = "OK"
       /\ new.backup.status = "BACKUP_STATUS_MERGING"
       /\ ws_backup.status = "BACKUP_STATUS_MERGING"
       /\ new.backup.data_bytes # ws_backup.data_bytes
       /\ new.backup.stop_lsn # ws_backup.stop_lsn

\* the control file could not be read and the call returned
C26_WitnessUnread ==
    /\ ws_pc = "returned"
    /\ read_backup(ws_files, ws_backup.start_time).rc = "NULL"

(***************************************************************************)
(* Parent links of a returned list as the walks follow them.               *)
(***************************************************************************)
\* following parent_backup_link from place i reaches a NULL link within
\* fuel steps
RECURSIVE ReachesNull(_, _, _)
ReachesNull(list, i, fuel) ==
    IF list[i].parent_backup_link = NoLink THEN TRUE
    ELSE IF fuel = 0 THEN FALSE
    ELSE ReachesNull(list, list[i].parent_backup_link, fuel - 1)

\* C28: in every list catalog_get_backup_list returns, following
\* parent_backup_link from any element reaches a null link after finitely
\* many steps (so the walks of find_parent_full_backup, scan_parent_chain
\* and is_parent end), stubs of directories without control file and a
\* directory whose name decodes to start_time 0 included.
C28_ParentLinksAcyclic ==
    list_ret = "OK" =>
       \A i \in 1..Len(backups) : ReachesNull(backups, i, Len(backups))

====
